---- MODULE Spec2Model ----
(***************************************************************************)
(* A model of the Phase4 distributed file system: the master's metadata    *)
(* manager and chunk allocator, the chunk servers, the client pipeline and *)
(* the Reed-Solomon codec.                                                 *)
(***************************************************************************)
EXTENDS Integers, Sequences, FiniteSets, TLC

(***************************************************************************)
(* Program constants (src/Phase4/src/common/utils.h).                      *)
(***************************************************************************)
CHUNK_SIZE == 4194304
DEFAULT_REPLICATION_FACTOR == 3
ERASURE_CODING_DATA_BLOCKS == 4
ERASURE_CODING_PARITY_BLOCKS == 2
HEARTBEAT_TIMEOUT_MS == 15000
HEARTBEAT_INTERVAL_MS == 5000

\* bytes in the unit disk sizes are counted in
MiB == 1048576

(***************************************************************************)
(* Bounds of the model.                                                    *)
(***************************************************************************)
\* longest byte string handed to the codec
MaxDataLen == 5

\* most servers in the table the allocator works on
MaxAllocServers == 6

\* size of every server's disk, and the least free space that still admits
\* a chunk (CHUNK_SIZE over a tenth of the disk), in MiB
DiskMiB == 40
TightFreeMiB == 8

\* chunk servers of the cluster
MaxServers == 4

\* chunk servers that stop during a run
MaxStopped == 1

\* heartbeat timeouts the clock runs for
MaxTicks == 1

\* tasks a chunk server's replication queue holds
MaxQueueLen == 1

\* chunk servers whose disk fills up
MaxCrowded == 1

\* the chunk servers of the model of the master's threads, and the
\* heartbeat intervals its clock runs for
MaxMasterServers == 2
MaxClockTicks == 7

\* concurrent CreateFile calls
MaxCreateCalls == 3

\* chunk servers of the cluster that the uploading client is watched on
MaxUploadServers == 2

\* chunk servers of the cluster whose chunks the master repairs
MaxRepairServers == 3

\* corruption reports the master receives
MaxReports == 2
MaxQueuedTasks == 2
MaxBeatTasks == 2

\* the chunk servers of the cluster that stores erasure-coded files
MaxEcServers == 6

\* the capacity of the client's cache (max_size_), in bytes
MaxCacheSize == 3

\* how far the clock of the cache's model runs, in milliseconds
MaxCacheClock == 2

\* how often a chunk server is handed the same heartbeat response
MaxApplications == 3

\* byte values the codec's inputs are drawn from
ByteSamples == {0, 171}

VARIABLES
    files_,             \* MetadataManager: filename -> FileMetadata
    chunks_,            \* MetadataManager: chunk_id -> ChunkMetadata
    servers_,           \* MetadataManager: server_id -> ServerMetadata
    chunk_to_servers_,  \* MetadataManager: chunk_id -> set of server ids
    server_to_chunks_,  \* MetadataManager: server_id -> set of chunk ids
    round_robin_index_, \* ChunkAllocator
    strategy_,          \* ChunkAllocator
    server_zones_,      \* ChunkAllocator: server_id -> zone
    file_ids_issued,    \* how many ids generateFileId has handed out
    alloc_call,         \* the allocator's client: its request and the response
    ec_data,            \* the byte string given to ErasureCoding::encode
    ec_availability,    \* the availability vector given to decode
    ec_blocks,          \* the k+m blocks as the caller holds them
    ec_result,          \* what decode returned (or that it threw)
    ec_pc,              \* position of the codec's caller
    now,                \* Utils::getCurrentTimestamp, in milliseconds
    server_state,       \* per chunk server: "off", "running" or "stopped"
    storage_,           \* per chunk server: chunk_id -> stored data and checksum
    replication_queue_, \* per chunk server: the tasks waiting for the worker
    upload,             \* the client's uploadFile: its position and locals
    cache_,             \* the client's CacheManager: chunk_id -> data
    download,           \* what the last downloadFile returned
    monitor_pc,         \* the heartbeat sweeper: "sleeping", or "swept" after a sweep
    metadata_mutex_,    \* MetadataManager: "free", or "stuck" once it can never be taken
    create_calls,       \* the CreateFile calls in progress: position and locals of each
    data_files_,        \* ChunkStorage's directory: chunk_id -> bytes of the data file
    sidecars_,          \* ChunkStorage's directory: chunk_id -> checksum in the .meta file
    chunk_checksums_,   \* ChunkStorage: chunk_id -> checksum
    stored_chunks_,     \* ChunkStorage: set of chunk ids
    write_call,         \* the WriteChunk call in progress, then its response
    storage_mutex_,     \* ChunkStorage: "free", or "stuck" once it can never be taken
    gc_pc,              \* the maintenance thread: "sleeping", "scanning" or "finished"
    delete_call,        \* the heartbeat thread at work on a chunks_to_delete entry
    response_call,      \* the heartbeat response a chunk server applies, and how often
    endpoint_calls,     \* an AllocateChunks and a CompleteUpload in progress at the master
    keys_,              \* KeyManager::keys_ of the master's process and of the client's
    cache_manager,      \* CacheManager: its cache_ with sizes and times, and total_size_
    cache_call,         \* the last CacheManager operation and what it evicted
    restart,            \* the master's last restart: the tables saved and those loaded
    repair,             \* the last corruption report: the call and what the repair chose
    chunk_download,     \* the client's last downloadChunk: what it was given and returned
    shutdown,           \* one chunk server's running_ flag, its threads and stop()
    read_call           \* the ReadChunk call in progress, then its response

masterVars == <<files_, chunks_, servers_, chunk_to_servers_, server_to_chunks_,
                round_robin_index_, strategy_, server_zones_, file_ids_issued>>

ecVars == <<ec_data, ec_availability, ec_blocks, ec_result, ec_pc>>

sysVars == <<now, server_state, storage_, replication_queue_, upload, cache_,
             download>>

unitVars == <<monitor_pc, metadata_mutex_>>

storeVars == <<data_files_, sidecars_, chunk_checksums_, stored_chunks_>>

maintVars == <<storage_mutex_, gc_pc, delete_call>>
finalVars == <<repair, chunk_download, shutdown>>

\* a chunk server after start(): running_ is set and its heartbeat and
\* replication threads are at the top of their loops
ServerStarted ==
    [running_ |-> TRUE, stop_pc |-> "idle", worker_pc |-> "loop",
     heartbeat_pc |-> "sleeping", pending |-> 0, queued |-> 0,
     replication_mutex_ |-> "free"]
laterVars ==
    <<response_call, endpoint_calls, keys_, cache_manager, cache_call, restart,
      finalVars>>
callVars == <<create_calls, storeVars, write_call, read_call, maintVars, laterVars>>

vars == <<masterVars, alloc_call, ecVars, sysVars, unitVars, callVars>>

(***************************************************************************)
(* Helpers on sequences and 0-based vectors.                               *)
(***************************************************************************)
Min(a, b) == IF a <= b THEN a ELSE b

\* all sequences over S of length at most n
BoundedSeq(S, n) == UNION {[1..l -> S] : l \in 0..n}

\* size of a 0-based vector (std::vector::size)
VSize(v) == Cardinality(DOMAIN v)

\* the vector f with every element computed once (comparing a function
\* enumerates it)
Materialize(f) == IF f = f THEN f ELSE f

\* F of the value of e, with e computed once
Bind(e, F(_)) == CHOOSE r \in {F(x) : x \in {e}} : TRUE


(***************************************************************************)
(* ErasureCoding: arithmetic in GF(2^8).                                   *)
(***************************************************************************)
\* a ^ b on unsigned integers
RECURSIVE gf_add(_, _)
gf_add(a, b) ==
    IF a = 0 THEN b
    ELSE IF b = 0 THEN a
    ELSE 2 * gf_add(a \div 2, b \div 2) + ((a + b) % 2)

\* the loop of initializeTables: the n values x takes after the value x,
\* each one the previous shifted left and reduced by 0x11D
RECURSIVE initializeTables(_, _)
initializeTables(x, n) ==
    IF n <= 0 THEN <<>>
    ELSE IF n = 1
    THEN <<IF 2 * x >= 256 THEN gf_add(2 * x, 285) ELSE 2 * x>>
    ELSE LET first == initializeTables(x, n \div 2)
         IN  first \o initializeTables(first[Len(first)], n - (n \div 2))

gf_exp_table_ ==
    LET powers == initializeTables(1, 254)
    IN  [i \in 0..255 |-> IF i = 0 \/ i = 255 THEN 1 ELSE powers[i]]

gf_log_table_ ==
    [x \in 0..255 |->
        IF x = 0 \/ x = 1 THEN 0
        ELSE CHOOSE i \in 1..254 : gf_exp_table_[i] = x]

gf_multiply(a, b) ==
    IF a = 0 \/ b = 0 THEN 0
    ELSE gf_exp_table_[(gf_log_table_[a] + gf_log_table_[b]) % 255]

\* the caller never divides by zero (invertMatrix checks the pivot first)
gf_divide(a, b) ==
    IF a = 0 THEN 0
    ELSE gf_exp_table_[(gf_log_table_[a] - gf_log_table_[b] + 255) % 255]

gf_power(base, exp) ==
    IF base = 0 THEN 0
    ELSE IF exp = 0 THEN 1
    ELSE gf_exp_table_[(gf_log_table_[base] * exp) % 255]

createVandermondeMatrix(rows, cols) ==
    [i \in 0..(rows - 1) |-> [j \in 0..(cols - 1) |-> gf_power(i + 1, j)]]

\* one pass of the elimination loop of invertMatrix for column i
RECURSIVE invertMatrixLoop(_, _, _)
invertMatrixLoop(augmented, i, n) ==
    IF i >= n THEN [ok |-> TRUE, m |-> augmented]
    ELSE
      LET below == {k \in (i + 1)..(n - 1) : augmented[k][i] # 0}
          pivot == IF below = {} THEN i
                   ELSE CHOOSE k \in below : \A k2 \in below : k <= k2
      IN  IF augmented[pivot][i] = 0 THEN [ok |-> FALSE, m |-> augmented]
          ELSE
            LET swapped == [augmented EXCEPT ![i] = augmented[pivot],
                                             ![pivot] = augmented[i]]
                diagonal == swapped[i][i]
                rowi == Materialize([j \in 0..(2 * n - 1) |->
                            IF swapped[i][j] # 0
                            THEN gf_divide(swapped[i][j], diagonal)
                            ELSE 0])
                eliminated ==
                    Materialize([k \in 0..(n - 1) |->
                        IF k = i THEN rowi
                        ELSE IF swapped[k][i] # 0
                        THEN [j \in 0..(2 * n - 1) |->
                                gf_add(swapped[k][j],
                                       gf_multiply(swapped[k][i], rowi[j]))]
                        ELSE swapped[k]])
            IN  invertMatrixLoop(eliminated, i + 1, n)

\* [ok |-> FALSE] stands for the runtime_error "Matrix is not invertible"
invertMatrix(matrix) ==
    LET n == VSize(matrix)
        augmented == [i \in 0..(n - 1) |->
                        [j \in 0..(2 * n - 1) |->
                            IF j < n THEN matrix[i][j]
                            ELSE IF j - n = i THEN 1 ELSE 0]]
        done == invertMatrixLoop(augmented, 0, n)
    IN  IF ~done.ok THEN [ok |-> FALSE, m |-> <<>>]
        ELSE [ok |-> TRUE,
              m |-> [i \in 0..(n - 1) |-> [j \in 0..(n - 1) |-> done.m[i][j + n]]]]

RECURSIVE matrixRowTimesVector(_, _, _, _)
matrixRowTimesVector(row, vector, j, acc) ==
    IF j >= VSize(vector) THEN acc
    ELSE matrixRowTimesVector(row, vector, j + 1,
                              gf_add(acc, gf_multiply(row[j], vector[j])))

matrixVectorMultiply(matrix, vector) ==
    [i \in DOMAIN matrix |-> matrixRowTimesVector(matrix[i], vector, 0, 0)]

(***************************************************************************)
(* ErasureCoding::encode and decode.  A block list is a 0-based vector of  *)
(* byte sequences; encode of the empty string returns the empty vector.    *)
(***************************************************************************)
data_blocks_ == ERASURE_CODING_DATA_BLOCKS
parity_blocks_ == ERASURE_CODING_PARITY_BLOCKS

encode(data) ==
    IF Len(data) = 0 THEN <<>>
    ELSE
      LET block_size == (Len(data) + data_blocks_ - 1) \div data_blocks_
          padded_data == [p \in 1..(data_blocks_ * block_size) |->
                            IF p <= Len(data) THEN data[p] ELSE 0]
          data_blocks == [i \in 0..(data_blocks_ - 1) |->
                            [j \in 1..block_size |-> padded_data[i * block_size + j]]]
          encoding_matrix ==
              createVandermondeMatrix(data_blocks_ + parity_blocks_, data_blocks_)
      IN  [i \in 0..(data_blocks_ + parity_blocks_ - 1) |->
              IF i < data_blocks_ THEN data_blocks[i]
              ELSE [j \in 1..block_size |->
                      LET column == [k \in 0..(data_blocks_ - 1) |-> data_blocks[k][j]]
                      IN  matrixVectorMultiply(
                              [r \in {0} |-> encoding_matrix[i]], column)[0]]]

\* the indices i with availability[i], ascending
RECURSIVE availableIndices(_, _)
availableIndices(availability, i) ==
    IF i >= VSize(availability) THEN <<>>
    ELSE (IF availability[i] THEN <<i>> ELSE <<>>)
         \o availableIndices(availability, i + 1)

notEnoughBlocks_off_by_one(available_count) == available_count < data_blocks_ - 1

\* decode's early exit "Not enough blocks available for decoding"
notEnoughBlocks(available_count) == available_count < data_blocks_

RECURSIVE concatBlocks(_, _)
concatBlocks(blocks, i) ==
    IF i >= data_blocks_ THEN <<>>
    ELSE blocks[i] \o concatBlocks(blocks, i + 1)

\* [ok |-> FALSE] stands for a thrown runtime_error; ub marks a read past the
\* end of a block (blocks[idx][j] with j >= blocks[idx].size()), after which
\* the returned bytes are not defined
decode(blocks, availability) ==
    LET total == data_blocks_ + parity_blocks_
        thrown == [ok |-> FALSE, ub |-> FALSE, data |-> <<>>]
    IN
    IF VSize(blocks) # total \/ VSize(availability) # total THEN thrown
    ELSE
      LET all_available == availableIndices(availability, 0)
          available_count == Len(all_available)
      IN
      IF notEnoughBlocks(available_count) THEN thrown
      ELSE IF \A i \in 0..(data_blocks_ - 1) : availability[i]
      THEN [ok |-> TRUE, ub |-> FALSE, data |-> concatBlocks(blocks, 0)]
      ELSE
        LET \* available_indices.resize(data_blocks_), 0-based
            available_indices ==
                [i \in 0..(data_blocks_ - 1) |->
                    IF i < available_count THEN all_available[i + 1] ELSE 0]
            encoding_matrix == createVandermondeMatrix(total, data_blocks_)
            decoding_matrix == [i \in 0..(data_blocks_ - 1) |->
                                   encoding_matrix[available_indices[i]]]
            inverse == invertMatrix(decoding_matrix)
        IN
        IF ~inverse.ok THEN thrown
        ELSE IF \E i \in 0..(data_blocks_ - 1) :
                    Len(blocks[available_indices[i]]) < Len(blocks[available_indices[0]])
        THEN [ok |-> TRUE, ub |-> TRUE, data |-> <<>>]
        ELSE
          LET block_size == Len(blocks[available_indices[0]])
              inverse_matrix == Materialize(inverse.m)
              decoded_column ==
                  Materialize([j \in 1..block_size |->
                      Materialize(matrixVectorMultiply(inverse_matrix,
                          [i \in 0..(data_blocks_ - 1) |->
                              blocks[available_indices[i]][j]]))])
              decoded_blocks ==
                  [i \in 0..(data_blocks_ - 1) |->
                      [j \in 1..block_size |-> decoded_column[j][i]]]
          IN  [ok |-> TRUE, ub |-> FALSE, data |-> concatBlocks(decoded_blocks, 0)]

canDecode(availability) ==
    Cardinality({i \in DOMAIN availability : availability[i]}) >= data_blocks_

\* ErasureCodedChunkManager::removePadding
removePadding(data, originalSize) ==
    IF originalSize < 0 \/ originalSize > Len(data) THEN data
    ELSE SubSeq(data, 1, originalSize)

(***************************************************************************)
(* MetadataManager.  The operators below take the master's tables as one   *)
(* record st (the fields are the members of MetadataManager and the        *)
(* allocator's round_robin_index_) and return the tables after the call,   *)
(* so that a handler making several calls is one step.  Server ids are     *)
(* numbers; a server's id is also the address clients and peers reach it   *)
(* at.  Disk sizes are counted in MiB.                                     *)
(***************************************************************************)
Tables ==
    [files_ |-> files_, chunks_ |-> chunks_, servers_ |-> servers_,
     chunk_to_servers_ |-> chunk_to_servers_,
     server_to_chunks_ |-> server_to_chunks_,
     round_robin_index_ |-> round_robin_index_]

\* map[key] of an unordered_map of sets: a missing key reads as the empty set
Get(map, key) == IF key \in DOMAIN map THEN map[key] ELSE {}

Put(map, key, value) ==
    Materialize([x \in (DOMAIN map) \cup {key} |-> IF x = key THEN value ELSE map[x]])

Drop(map, key) == Materialize([x \in (DOMAIN map) \ {key} |-> map[x]])

Range(seq) == {seq[i] : i \in DOMAIN seq}

\* std::remove + erase: the sequence without the elements in gone
RECURSIVE Without(_, _)
Without(seq, gone) ==
    IF seq = <<>> THEN <<>>
    ELSE (IF Head(seq) \in gone THEN <<>> ELSE <<Head(seq)>>) \o Without(Tail(seq), gone)

\* the elements of a set of numbers in ascending order
RECURSIVE Ascending(_)
Ascending(S) ==
    IF S = {} THEN <<>>
    ELSE LET least == CHOOSE x \in S : \A y \in S : x <= y
         IN  <<least>> \o Ascending(S \ {least})

\* the loop shared by addChunk and updateChunkLocations: record chunk_id on
\* every server of locations, in both maps and in the server's stored_chunks
linkChunkToServers(st, chunk_id, locations) ==
    [st EXCEPT
        !.chunk_to_servers_ =
            IF locations = {} THEN st.chunk_to_servers_
            ELSE Put(st.chunk_to_servers_, chunk_id,
                     Get(st.chunk_to_servers_, chunk_id) \cup locations),
        !.server_to_chunks_ =
            Materialize([s \in (DOMAIN st.server_to_chunks_) \cup locations |->
                IF s \in locations
                THEN Get(st.server_to_chunks_, s) \cup {chunk_id}
                ELSE st.server_to_chunks_[s]]),
        !.servers_ =
            Materialize([s \in DOMAIN st.servers_ |->
                IF s \in locations
                THEN [st.servers_[s] EXCEPT !.stored_chunks = @ \cup {chunk_id}]
                ELSE st.servers_[s]])]

\* createFile without its look-up: files_[filename] = metadata whatever is there
createFile_overwriting(st, filename, metadata) ==
    [st EXCEPT !.files_ = Put(st.files_, filename, metadata)]

createFile(st, filename, metadata) ==
    IF filename \in DOMAIN st.files_ THEN st
    ELSE [st EXCEPT !.files_ = Put(st.files_, filename, metadata)]

updateFileMetadata(st, filename, metadata) ==
    IF filename \notin DOMAIN st.files_ THEN st
    ELSE [st EXCEPT !.files_ = Put(st.files_, filename, metadata)]

addChunk(st, chunk_id, metadata) ==
    linkChunkToServers([st EXCEPT !.chunks_ = Put(st.chunks_, chunk_id, metadata)],
                       chunk_id, Range(metadata.server_locations))

removeChunkFromAllServers(st, chunk_id) ==
    IF chunk_id \notin DOMAIN st.chunk_to_servers_ THEN st
    ELSE
      LET holders == st.chunk_to_servers_[chunk_id]
      IN  [st EXCEPT
            !.server_to_chunks_ =
                Materialize([s \in (DOMAIN st.server_to_chunks_) \cup holders |->
                    Get(st.server_to_chunks_, s) \ (IF s \in holders THEN {chunk_id} ELSE {})]),
            !.servers_ =
                Materialize([s \in DOMAIN st.servers_ |->
                    IF s \in holders
                    THEN [st.servers_[s] EXCEPT !.stored_chunks = @ \ {chunk_id}]
                    ELSE st.servers_[s]]),
            !.chunk_to_servers_ = Drop(st.chunk_to_servers_, chunk_id)]

eraseChunk(st, chunk_id) == [st EXCEPT !.chunks_ = Drop(st.chunks_, chunk_id)]

removeChunk(st, chunk_id) ==
    IF chunk_id \notin DOMAIN st.chunks_ THEN st
    ELSE eraseChunk(removeChunkFromAllServers(st, chunk_id), chunk_id)

setLocations(st, chunk_id, locations) ==
    linkChunkToServers([st EXCEPT !.chunks_[chunk_id].server_locations = locations],
                       chunk_id, Range(locations))

updateChunkLocations(st, chunk_id, locations) ==
    IF chunk_id \notin DOMAIN st.chunks_ THEN st
    ELSE setLocations(removeChunkFromAllServers(st, chunk_id), chunk_id, locations)

registerServer(st, server_id, metadata) ==
    [st EXCEPT
        !.servers_ = Put(st.servers_, server_id, metadata),
        !.server_to_chunks_ =
            Put(st.server_to_chunks_, server_id, Get(st.server_to_chunks_, server_id))]

updateServerMetadata(st, server_id, metadata) ==
    IF server_id \notin DOMAIN st.servers_ THEN st
    ELSE [st EXCEPT !.servers_[server_id] = metadata]

getHealthyServers_all_servers(st) == Ascending(DOMAIN st.servers_)

\* the unordered_map's iteration order is taken to be ascending server id
getHealthyServers(st) ==
    Ascending({s \in DOMAIN st.servers_ : st.servers_[s].is_healthy})

removeChunkFromServer(st, chunk_id, server_id) ==
    [st EXCEPT
        !.chunk_to_servers_ =
            Put(st.chunk_to_servers_, chunk_id,
                Get(st.chunk_to_servers_, chunk_id) \ {server_id}),
        !.server_to_chunks_ =
            Put(st.server_to_chunks_, server_id,
                Get(st.server_to_chunks_, server_id) \ {chunk_id}),
        !.chunks_ =
            IF chunk_id \in DOMAIN st.chunks_
            THEN [st.chunks_ EXCEPT
                    ![chunk_id].server_locations = Without(@, {server_id})]
            ELSE st.chunks_,
        !.servers_ =
            IF server_id \in DOMAIN st.servers_
            THEN [st.servers_ EXCEPT ![server_id].stored_chunks = @ \ {chunk_id}]
            ELSE st.servers_]

getChunksForServer(st, server_id) == Get(st.server_to_chunks_, server_id)

markServerUnhealthy(st, server_id) ==
    IF server_id \notin DOMAIN st.servers_ THEN st
    ELSE [st EXCEPT !.servers_[server_id].is_healthy = FALSE]

(***************************************************************************)
(* ChunkAllocator.                                                         *)
(***************************************************************************)
\* free_space - required_space >= total_space / 10, in bytes
hasEnoughSpace(server, required_space) ==
    server.free_space * MiB - required_space >= (server.total_space * MiB) \div 10

getAvailableServers_ignoring_exclude(st, exclude) ==
    SelectSeq(getHealthyServers(st),
              LAMBDA s : hasEnoughSpace(st.servers_[s], CHUNK_SIZE))

getAvailableServers(st, exclude) ==
    SelectSeq(getHealthyServers(st),
              LAMBDA s : s \notin Range(exclude)
                         /\ hasEnoughSpace(st.servers_[s], CHUNK_SIZE))

\* 0.5 * storage_load + 0.3 * cpu_load + 0.2 * memory_load as the exact
\* fraction num / den of thousandths (cpu_usage and memory_usage are whole
\* percents)
calculateServerLoad(server) ==
    [num |-> 500 * (server.total_space - server.free_space)
             + (3 * server.cpu_usage + 2 * server.memory_usage) * server.total_space,
     den |-> server.total_space]

loadLess(a, b) == a.num * b.den < b.num * a.den

\* the position in list of a server of least load: the first such position
\* when ties = 0, the last otherwise
leastLoaded(st, list, ties) ==
    LET load(i) == calculateServerLoad(st.servers_[list[i]])
        minimal == {i \in DOMAIN list :
                        \A j \in DOMAIN list : ~loadLess(load(j), load(i))}
    IN  CHOOSE i \in minimal :
            \A j \in minimal : IF ties = 0 THEN i <= j ELSE i >= j

\* list with position first moved to the front
MoveToFront(list, first) ==
    <<list[first]>> \o SubSeq(list, 1, first - 1) \o SubSeq(list, first + 1, Len(list))

\* std::sort by ascending load; servers of equal load come out in list order
\* when ties = 0 and in reverse list order otherwise
RECURSIVE sortByLoad(_, _, _)
sortByLoad(st, list, ties) ==
    IF list = <<>> THEN <<>>
    ELSE Bind(leastLoaded(st, list, ties),
              LAMBDA first :
                  <<list[first]>>
                  \o Bind(Tail(MoveToFront(list, first)),
                          LAMBDA rest : sortByLoad(st, rest, ties)))

\* the first count elements of list
FirstN(list, count) == SubSeq(list, 1, Min(count, Len(list)))

RECURSIVE roundRobinLoop(_, _, _, _, _)
roundRobinLoop(i, count, available_servers, rr, result) ==
    IF i >= count \/ available_servers = <<>>
    THEN [servers |-> result, round_robin_index_ |-> rr]
    ELSE
      LET index == rr % Len(available_servers)
          rest == SubSeq(available_servers, 1, index)
                  \o SubSeq(available_servers, index + 2, Len(available_servers))
      IN  roundRobinLoop(i + 1, count, rest,
                         IF rr + 1 >= Len(rest) /\ rest # <<>> THEN 0 ELSE rr + 1,
                         Append(result, available_servers[index + 1]))

allocateRoundRobin(st, count, exclude) ==
    roundRobinLoop(0, count, getAvailableServers(st, exclude),
                   st.round_robin_index_, <<>>)

allocateLeastLoaded(st, count, exclude, seed) ==
    Bind(Bind(getAvailableServers(st, exclude),
              LAMBDA available_servers : sortByLoad(st, available_servers, seed % 2)),
         LAMBDA sorted : FirstN(sorted, count))

\* std::shuffle: the permutations tried are the rotations of the list, by seed
shuffle(list, seed) ==
    Materialize([i \in 1..Len(list) |-> list[((i - 1 + seed) % Len(list)) + 1]])

allocateRandom(st, count, exclude, seed) ==
    FirstN(shuffle(getAvailableServers(st, exclude), seed), count)

getServerZone(server_id) ==
    IF server_id \in DOMAIN server_zones_ THEN server_zones_[server_id]
    ELSE "default"

\* first pass of allocateZoneAware: one server of each zone not yet used
RECURSIVE zoneAwareFirstPass(_, _, _, _)
zoneAwareFirstPass(available_servers, count, result, used_zones) ==
    IF available_servers = <<>> \/ Len(result) >= count THEN result
    ELSE LET server == Head(available_servers)
             zone == getServerZone(server)
         IN  IF zone \notin used_zones
             THEN zoneAwareFirstPass(Tail(available_servers), count,
                                     Append(result, server), used_zones \cup {zone})
             ELSE zoneAwareFirstPass(Tail(available_servers), count,
                                     result, used_zones)

\* second pass of allocateZoneAware: fill the remaining slots, least loaded
\* first
zoneAwareSecondPass(st, count, exclude, seed, result) ==
    IF Len(result) < count
    THEN result \o allocateLeastLoaded(st, count - Len(result),
                                       exclude \o result, seed)
    ELSE result

allocateZoneAware(st, count, exclude, seed) ==
    zoneAwareSecondPass(st, count, exclude, seed,
        zoneAwareFirstPass(getAvailableServers(st, exclude), count, <<>>, {}))

\* the switch on strategy_: the servers picked and the round-robin index after
selectServers(st, replication_factor, exclude_servers, seed) ==
    IF strategy_ = "ROUND_ROBIN"
    THEN allocateRoundRobin(st, replication_factor, exclude_servers)
    ELSE [servers |->
            IF strategy_ = "LEAST_LOADED"
            THEN allocateLeastLoaded(st, replication_factor, exclude_servers, seed)
            ELSE IF strategy_ = "RANDOM"
            THEN allocateRandom(st, replication_factor, exclude_servers, seed)
            ELSE allocateZoneAware(st, replication_factor, exclude_servers, seed),
          round_robin_index_ |-> st.round_robin_index_]

\* the chunk metadata created for the servers picked, if any
recordAllocation(st, chunk_id, picked) ==
    [servers |-> picked.servers,
     st |-> IF picked.servers # <<>>
            THEN addChunk([st EXCEPT !.round_robin_index_ = picked.round_robin_index_],
                          chunk_id,
                          [server_locations |-> picked.servers,
                           is_erasure_coded |-> FALSE])
            ELSE [st EXCEPT !.round_robin_index_ = picked.round_robin_index_]]

\* returns the servers and the tables after addChunk
allocateServersForChunk(st, chunk_id, replication_factor, exclude_servers, seed) ==
    Bind(selectServers(st, replication_factor, exclude_servers, seed),
         LAMBDA picked : recordAllocation(st, chunk_id, picked))

calculateChunkCount(file_size) == (file_size + CHUNK_SIZE - 1) \div CHUNK_SIZE

\* the ChunkInfo of an erasure-coded block
blockInfo(chunk_id, servers) ==
    [chunk_id |-> chunk_id, server_addresses |-> servers,
     size |-> CHUNK_SIZE \div ERASURE_CODING_DATA_BLOCKS,
     is_erasure_coded |-> TRUE]

\* the block loop of one erasure-coding group; got is what
\* allocateServersForChunk returned for the block before this one
RECURSIVE allocateGroupBlocks(_, _, _, _, _, _)
allocateBlock(group_id, block, exclude_servers, allocated_chunks, seed, chunk_id, got) ==
    IF got.servers = <<>>
    THEN allocateGroupBlocks(got.st, group_id, block + 1, exclude_servers,
                             allocated_chunks, seed)
    ELSE allocateGroupBlocks(got.st, group_id, block + 1,
                             exclude_servers \o got.servers,
                             Append(allocated_chunks, blockInfo(chunk_id, got.servers)),
                             seed)

allocateGroupBlocks(st, group_id, block, exclude_servers, allocated_chunks, seed) ==
    IF block >= ERASURE_CODING_DATA_BLOCKS + ERASURE_CODING_PARITY_BLOCKS
    THEN [st |-> st, allocated_chunks |-> allocated_chunks]
    ELSE allocateBlock(group_id, block, exclude_servers, allocated_chunks, seed,
                       group_id \o "_block_" \o ToString(block),
                       allocateServersForChunk(st,
                           group_id \o "_block_" \o ToString(block), 1,
                           exclude_servers, seed))

RECURSIVE allocateGroups(_, _, _, _, _, _)
nextGroup(file_id, group, groups_needed, seed, done) ==
    allocateGroups(done.st, file_id, group + 1, groups_needed,
                   done.allocated_chunks, seed)

allocateGroups(st, file_id, group, groups_needed, allocated_chunks, seed) ==
    IF group >= groups_needed
    THEN [st |-> st, allocated_chunks |-> allocated_chunks]
    ELSE nextGroup(file_id, group, groups_needed, seed,
                   allocateGroupBlocks(st, file_id \o "_group_" \o ToString(group),
                                       0, <<>>, allocated_chunks, seed))

RECURSIVE allocateReplicated(_, _, _, _, _, _, _)
allocateReplica(file_id, file_size, i, chunk_count, allocated_chunks, seed, got) ==
    allocateReplicated(got.st, file_id, file_size, i + 1, chunk_count,
        Append(allocated_chunks,
               [chunk_id |-> file_id \o "_chunk_" \o ToString(i),
                server_addresses |-> got.servers,
                size |-> Min(CHUNK_SIZE, file_size - i * CHUNK_SIZE),
                is_erasure_coded |-> FALSE]),
        seed)

allocateReplicated(st, file_id, file_size, i, chunk_count, allocated_chunks, seed) ==
    IF i >= chunk_count
    THEN [st |-> st, allocated_chunks |-> allocated_chunks]
    ELSE allocateReplica(file_id, file_size, i, chunk_count, allocated_chunks, seed,
             allocateServersForChunk(st, file_id \o "_chunk_" \o ToString(i),
                                     DEFAULT_REPLICATION_FACTOR, <<>>, seed))

allocateChunks(st, file_id, file_size, enable_erasure_coding, seed) ==
    IF enable_erasure_coding
    THEN allocateGroups(st, file_id, 0, calculateChunkCount(file_size), <<>>, seed)
    ELSE allocateReplicated(st, file_id, file_size, 0,
                            calculateChunkCount(file_size), <<>>, seed)

\* allocateChunks holds allocation_mutex_ (a std::mutex) and, under
\* ZONE_AWARE, getServerZone locks it again on the same thread as soon as the
\* first pass meets an available server: undefined behaviour
relocksAllocationMutex(st, file_size) ==
    /\ strategy_ = "ZONE_AWARE"
    /\ calculateChunkCount(file_size) > 0
    /\ getAvailableServers(st, <<>>) # <<>>

(***************************************************************************)
(* MasterServer: the handlers of the file RPCs, as functions of the tables *)
(* returning the tables after the call and the response.                   *)
(***************************************************************************)
\* (names in the model are short and hold none of the invalid characters)
validateFileName(filename) == filename # ""

\* Utils::generateFileId draws 32 random characters; the n-th id drawn is
\* taken to differ from all earlier ones
generateFileId(n) == "file_" \o ToString(n)

CreateFile(st, filename, file_size, enable_erasure_coding, file_id) ==
    IF ~validateFileName(filename) \/ filename \in DOMAIN st.files_
    THEN [st |-> st, response |-> [success |-> FALSE, file_id |-> ""]]
    ELSE [st |-> createFile(st, filename,
                    [file_id |-> file_id, filename |-> filename,
                     size |-> file_size, chunk_ids |-> <<>>,
                     is_erasure_coded |-> enable_erasure_coding]),
          response |-> [success |-> TRUE, file_id |-> file_id]]

\* the file with the given id, as the loop over listFiles() finds it
fileById(st, file_id) == {n \in DOMAIN st.files_ : st.files_[n].file_id = file_id}

\* the second half of AllocateChunks: done is what allocateChunks returned
allocateChunksResponse(file_metadata, done) ==
    IF done.allocated_chunks = <<>>
    THEN [st |-> done.st,
          response |-> [success |-> FALSE, allocated_chunks |-> <<>>]]
    ELSE [st |-> updateFileMetadata(done.st, file_metadata.filename,
                    [file_metadata EXCEPT !.chunk_ids =
                        @ \o [i \in DOMAIN done.allocated_chunks |->
                                 done.allocated_chunks[i].chunk_id]]),
          response |-> [success |-> TRUE,
                        allocated_chunks |-> done.allocated_chunks]]

allocateChunksFor(st, file_metadata, enable_erasure_coding, seed) ==
    allocateChunksResponse(file_metadata,
        allocateChunks(st, file_metadata.file_id, file_metadata.size,
                       enable_erasure_coding, seed))

AllocateChunks(st, file_id, enable_erasure_coding, seed) ==
    IF fileById(st, file_id) = {}
    THEN [st |-> st, response |-> [success |-> FALSE, allocated_chunks |-> <<>>]]
    ELSE allocateChunksFor(st, st.files_[CHOOSE n \in fileById(st, file_id) : TRUE],
                           enable_erasure_coding, seed)

\* the tables st written back to the variables
SetTables(st) ==
    /\ files_' = st.files_
    /\ chunks_' = st.chunks_
    /\ servers_' = st.servers_
    /\ chunk_to_servers_' = st.chunk_to_servers_
    /\ server_to_chunks_' = st.server_to_chunks_
    /\ round_robin_index_' = st.round_robin_index_

(***************************************************************************)
(* The codec's caller: encode a byte string, lose the blocks marked        *)
(* unavailable, decode what is left.                                       *)
(***************************************************************************)
EcIndices == 0..(data_blocks_ + parity_blocks_ - 1)

\* the master's threads as the cluster model leaves them
NoMasterThreads ==
    /\ monitor_pc = "sleeping"
    /\ metadata_mutex_ = "free"

CreateCalls == 1..MaxCreateCalls

\* a handler that no request has reached
IdleCall == [pc |-> "idle"]

\* no concurrent CreateFile, and one chunk server's ChunkStorage on an
\* empty directory with no request
NoCalls ==
    /\ create_calls = [c \in CreateCalls |-> IdleCall]
    /\ data_files_ = <<>>
    /\ sidecars_ = <<>>
    /\ chunk_checksums_ = <<>>
    /\ stored_chunks_ = {}
    /\ write_call = IdleCall
    /\ read_call = IdleCall
    /\ storage_mutex_ = "free"
    /\ gc_pc = "sleeping"
    /\ delete_call = IdleCall
    /\ response_call = IdleCall
    /\ endpoint_calls = [alloc |-> IdleCall, complete |-> IdleCall]
    /\ keys_ = [master |-> <<>>, client |-> <<>>]
    /\ cache_manager = [cache_ |-> <<>>, total_size_ |-> 0]
    /\ cache_call = [op |-> "none", evictions |-> <<>>]
    /\ restart = IdleCall
    /\ repair = [pc |-> "idle", reports |-> 0]
    /\ chunk_download = IdleCall
    /\ shutdown = ServerStarted

\* no chunk server process and no client
NoCluster ==
    /\ now = 0
    /\ server_state = <<>>
    /\ storage_ = <<>>
    /\ replication_queue_ = <<>>
    /\ upload = [pc |-> "idle"]
    /\ cache_ = <<>>
    /\ download = [phase |-> "none"]

CodecInit ==
    /\ ec_data \in BoundedSeq(ByteSamples, MaxDataLen)
    /\ ec_availability \in [EcIndices -> BOOLEAN]
    /\ ec_blocks = <<>>
    /\ ec_result = [ok |-> FALSE, ub |-> FALSE, data |-> <<>>]
    /\ ec_pc = "start"
    /\ files_ = <<>>
    /\ chunks_ = <<>>
    /\ servers_ = <<>>
    /\ chunk_to_servers_ = <<>>
    /\ server_to_chunks_ = <<>>
    /\ round_robin_index_ = 0
    /\ strategy_ = "LEAST_LOADED"
    /\ server_zones_ = <<>>
    /\ file_ids_issued = 0
    /\ alloc_call = [phase |-> "none"]
    /\ NoCluster
    /\ NoMasterThreads
    /\ NoCalls

EcEncode ==
    /\ ec_pc = "start"
    /\ ec_blocks' = encode(ec_data)
    /\ ec_pc' = "encoded"
    /\ UNCHANGED <<ec_data, ec_availability, ec_result, masterVars, alloc_call, sysVars, unitVars, callVars>>

\* the caller either clears the unavailable blocks (decodeChunk leaves them
\* empty) or only flags them in the availability vector
EcLoseBlocks ==
    /\ ec_pc = "encoded"
    /\ \E cleared \in BOOLEAN :
          ec_blocks' = [i \in DOMAIN ec_blocks |->
                          IF ec_availability[i] \/ ~cleared THEN ec_blocks[i] ELSE <<>>]
    /\ ec_pc' = "lost"
    /\ UNCHANGED <<ec_data, ec_availability, ec_result, masterVars, alloc_call, sysVars, unitVars, callVars>>

EcDecode ==
    /\ ec_pc \in {"lost", "decoded"}
    /\ ec_result' = decode(ec_blocks, ec_availability)
    /\ ec_pc' = "decoded"
    /\ UNCHANGED <<ec_data, ec_availability, ec_blocks, masterVars, alloc_call, sysVars, unitVars, callVars>>

CodecNext == EcEncode \/ EcLoseBlocks \/ EcDecode

CodecSpec == CodecInit /\ [][CodecNext]_vars

EcUnavailable == Cardinality({i \in EcIndices : ~ec_availability[i]})

\* C5: for every (non-empty) data and every pattern with at most m blocks
\* unavailable, missing data blocks included, decode(encode(data),
\* availability) truncated to the original length equals data.
C5_RoundTrip ==
    (ec_pc = "decoded" /\ Len(ec_data) > 0 /\ EcUnavailable <= parity_blocks_)
        => (ec_result.ok /\ ~ec_result.ub /\ removePadding(ec_result.data, Len(ec_data)) = ec_data)

\* C6: with more than m blocks unavailable, decode fails every time it is
\* called and never returns a byte string.
C6_TooManyLossesFail ==
    (ec_pc = "decoded" /\ EcUnavailable > parity_blocks_) => ~ec_result.ok

C6_Witness ==
    /\ ec_pc = "decoded"
    /\ EcUnavailable = parity_blocks_ + 1
    /\ ~canDecode(ec_availability)
    /\ Len(ec_data) > 0
    /\ ~ec_result.ok

(***************************************************************************)
(* The allocator on its own: a master whose server table is any table of   *)
(* at most MaxAllocServers servers, a client that creates a file and asks  *)
(* for its chunks.                                                         *)
(***************************************************************************)
\* a registered server as the heartbeats have left it: busy (little room
\* left, loaded), idle (as registered), full (healthy but without room for a
\* chunk), down (marked unhealthy)
ServerOfKind(kind) ==
    [total_space |-> DiskMiB,
     free_space |-> IF kind = "idle" \/ kind = "down" THEN DiskMiB
                    ELSE IF kind = "busy" THEN TightFreeMiB
                    ELSE TightFreeMiB - 1,
     cpu_usage |-> IF kind = "busy" THEN 80 ELSE 0,
     memory_usage |-> IF kind = "busy" THEN 70 ELSE 0,
     is_healthy |-> kind # "down",
     last_heartbeat |-> 0,
     stored_chunks |-> {}]

KindRank == [busy |-> 0, idle |-> 1, full |-> 2, down |-> 3]

\* server ids carry no meaning, so tables are drawn up to renaming: the
\* servers are numbered by kind
ServerTables ==
    UNION {{[s \in 1..n |-> ServerOfKind(kind[s])] :
              kind \in {k \in [1..n -> DOMAIN KindRank] :
                          \A s \in 1..n : \A t \in 1..n :
                              s < t => KindRank[k[s]] <= KindRank[k[t]]}} :
           n \in 0..MaxAllocServers}

Strategies == {"ROUND_ROBIN", "LEAST_LOADED", "RANDOM", "ZONE_AWARE"}

\* setServerZone: no zones set, or the servers spread over two zones with
\* one server left unzoned
ZoneMaps ==
    {<<>>,
     [s \in 2..MaxAllocServers |-> IF s % 2 = 0 THEN "zone_a" ELSE "zone_b"]}

AllocFileSizes == {0, 1, CHUNK_SIZE, CHUNK_SIZE + 1}

Seeds == {0, 1}

NoCall == [phase |-> "none"]

AllocInit ==
    /\ servers_ \in ServerTables
    /\ server_to_chunks_ = [s \in DOMAIN servers_ |-> {}]
    /\ files_ = <<>>
    /\ chunks_ = <<>>
    /\ chunk_to_servers_ = <<>>
    /\ round_robin_index_ = 0
    /\ strategy_ \in Strategies
    /\ server_zones_ \in ZoneMaps
    /\ (server_zones_ # <<>> => strategy_ = "ZONE_AWARE")
    /\ file_ids_issued = 0
    /\ alloc_call = NoCall
    /\ ec_data = <<>>
    /\ ec_availability = <<>>
    /\ ec_blocks = <<>>
    /\ ec_result = [ok |-> FALSE, ub |-> FALSE, data |-> <<>>]
    /\ ec_pc = "off"
    /\ NoCluster
    /\ NoMasterThreads
    /\ NoCalls

\* the client's CreateFile request
AllocCreateFile ==
    /\ alloc_call.phase = "none"
    /\ \E file_size \in AllocFileSizes : \E enable_erasure_coding \in BOOLEAN :
         \E done \in {CreateFile(Tables, "a", file_size, enable_erasure_coding,
                                  generateFileId(file_ids_issued + 1))} :
             /\ SetTables(done.st)
             /\ file_ids_issued' = file_ids_issued + 1
             /\ alloc_call' = [phase |-> "created",
                               file_id |-> done.response.file_id,
                               file_size |-> file_size,
                               enable_erasure_coding |-> enable_erasure_coding]
    /\ UNCHANGED <<strategy_, server_zones_, ecVars, sysVars, unitVars, callVars>>

\* the client's AllocateChunks request and the master's response to it; the
\* server table as it was before the call is remembered with the response
AllocAllocateChunks ==
    /\ alloc_call.phase = "created"
    /\ ~relocksAllocationMutex(Tables, alloc_call.file_size)
    /\ \E seed \in Seeds :
         \E done \in {AllocateChunks(Tables, alloc_call.file_id,
                                      alloc_call.enable_erasure_coding, seed)} :
             /\ SetTables(done.st)
             /\ alloc_call' = [alloc_call EXCEPT !.phase = "returned"]
                    @@ [response |-> done.response, servers_before |-> servers_]
    /\ UNCHANGED <<strategy_, server_zones_, file_ids_issued, ecVars, sysVars, unitVars, callVars>>

\* the same request when the allocator locks allocation_mutex_ twice: the
\* call either never returns or goes on as if the second lock had succeeded
AllocAllocateChunksRelock ==
    /\ alloc_call.phase = "created"
    /\ relocksAllocationMutex(Tables, alloc_call.file_size)
    /\ \/ /\ alloc_call' = [alloc_call EXCEPT !.phase = "hung"]
          /\ UNCHANGED <<files_, chunks_, servers_, chunk_to_servers_,
                         server_to_chunks_, round_robin_index_>>
       \/ \E seed \in Seeds :
            \E done \in {AllocateChunks(Tables, alloc_call.file_id,
                                         alloc_call.enable_erasure_coding, seed)} :
                /\ SetTables(done.st)
                /\ alloc_call' = [alloc_call EXCEPT !.phase = "returned"]
                       @@ [response |-> done.response, servers_before |-> servers_]
    /\ UNCHANGED <<strategy_, server_zones_, file_ids_issued, ecVars, sysVars, unitVars, callVars>>

AllocNext == AllocCreateFile \/ AllocAllocateChunks \/ AllocAllocateChunksRelock

AllocSpec == AllocInit /\ [][AllocNext]_vars

(***************************************************************************)
(* Properties of the allocation returned to the client.                    *)
(***************************************************************************)
AllocReturned == alloc_call.phase = "returned"

AllocChunks == alloc_call.response.allocated_chunks

\* the servers that were healthy when the allocation was made, and those of
\* them that had room for a chunk
HealthyAtCall ==
    {s \in DOMAIN alloc_call.servers_before : alloc_call.servers_before[s].is_healthy}

RoomAtCall ==
    {s \in HealthyAtCall :
        alloc_call.servers_before[s].free_space * MiB - CHUNK_SIZE
            >= (alloc_call.servers_before[s].total_space * MiB) \div 10}

\* ceil(file_size / CHUNK_SIZE), by its definition
CeilChunks(file_size) ==
    CHOOSE n \in 0..(file_size \div CHUNK_SIZE + 1) :
        n * CHUNK_SIZE >= file_size /\ (n = 0 \/ (n - 1) * CHUNK_SIZE < file_size)

PairwiseDistinct(seq) == Cardinality(Range(seq)) = Len(seq)

\* the entries of AllocChunks that are blocks of group number group
GroupEntries(group) ==
    {i \in DOMAIN AllocChunks :
        \E block \in 0..(ERASURE_CODING_DATA_BLOCKS + ERASURE_CODING_PARITY_BLOCKS - 1) :
            AllocChunks[i].chunk_id =
                alloc_call.file_id \o "_group_" \o ToString(group)
                                   \o "_block_" \o ToString(block)}

\* C7: in every allocation returned by allocateChunks, under every strategy,
\* the servers listed for one replicated chunk are pairwise distinct and the
\* blocks of one erasure group are on pairwise distinct servers.
C7_AllocatorDiversity ==
    AllocReturned =>
        /\ \A i \in DOMAIN AllocChunks :
              PairwiseDistinct(AllocChunks[i].server_addresses)
        /\ alloc_call.enable_erasure_coding =>
              \A group \in 0..CeilChunks(alloc_call.file_size) :
                \A i \in GroupEntries(group) : \A j \in GroupEntries(group) :
                    i # j => Range(AllocChunks[i].server_addresses)
                             \cap Range(AllocChunks[j].server_addresses) = {}

\* two full erasure groups were placed, each on k+m distinct servers, and a
\* server is used by both groups
C7_Witness ==
    /\ AllocReturned
    /\ alloc_call.enable_erasure_coding
    /\ Cardinality(GroupEntries(0)) = ERASURE_CODING_DATA_BLOCKS + ERASURE_CODING_PARITY_BLOCKS
    /\ Cardinality(GroupEntries(1)) = ERASURE_CODING_DATA_BLOCKS + ERASURE_CODING_PARITY_BLOCKS
    /\ \E i \in GroupEntries(0) : \E j \in GroupEntries(1) :
          AllocChunks[i].server_addresses = AllocChunks[j].server_addresses

\* C8 as stated: for a replicated file of size > 0, allocateChunks returns
\* exactly ceil(size / CHUNK_SIZE) entries, each listing exactly R distinct
\* servers, each healthy at allocation time.
C8_ExactlyRServers ==
    (AllocReturned /\ ~alloc_call.enable_erasure_coding /\ alloc_call.file_size > 0) =>
        /\ Len(AllocChunks) = CeilChunks(alloc_call.file_size)
        /\ \A i \in DOMAIN AllocChunks :
              /\ Len(AllocChunks[i].server_addresses) = DEFAULT_REPLICATION_FACTOR
              /\ PairwiseDistinct(AllocChunks[i].server_addresses)
              /\ Range(AllocChunks[i].server_addresses) \subseteq HealthyAtCall

\* C8 amended: for a replicated file of size > 0, allocateChunks returns
\* exactly ceil(size / CHUNK_SIZE) entries, each listing min(R, a) pairwise
\* distinct servers, where a is the number of healthy servers with enough
\* space at allocation time; every listed server is one of those.
C8_UpToRServers ==
    (AllocReturned /\ ~alloc_call.enable_erasure_coding /\ alloc_call.file_size > 0) =>
        /\ Len(AllocChunks) = CeilChunks(alloc_call.file_size)
        /\ \A i \in DOMAIN AllocChunks :
              /\ Len(AllocChunks[i].server_addresses)
                    = Min(DEFAULT_REPLICATION_FACTOR, Cardinality(RoomAtCall))
              /\ PairwiseDistinct(AllocChunks[i].server_addresses)
              /\ Range(AllocChunks[i].server_addresses) \subseteq RoomAtCall
              /\ RoomAtCall \subseteq HealthyAtCall

\* a two-chunk replicated file placed while only two servers could take a
\* chunk and an unhealthy and a full server were registered as well
C8_Witness ==
    /\ AllocReturned
    /\ ~alloc_call.enable_erasure_coding
    /\ alloc_call.file_size > CHUNK_SIZE
    /\ Len(AllocChunks) = 2
    /\ Cardinality(RoomAtCall) = 2
    /\ \E s \in DOMAIN servers_ : ~servers_[s].is_healthy
    /\ \E s \in HealthyAtCall : s \notin RoomAtCall
    /\ \A i \in DOMAIN AllocChunks : Len(AllocChunks[i].server_addresses) = 2

\* C9: in erasure-coded mode a successful allocateChunks returns, for every
\* chunk-sized slice of the file, exactly k+m block entries, each with
\* exactly one server.
C9_FullGroups ==
    (AllocReturned /\ alloc_call.enable_erasure_coding /\ alloc_call.response.success) =>
        /\ Len(AllocChunks) = CeilChunks(alloc_call.file_size)
              * (ERASURE_CODING_DATA_BLOCKS + ERASURE_CODING_PARITY_BLOCKS)
        /\ \A i \in DOMAIN AllocChunks : Len(AllocChunks[i].server_addresses) = 1

\* C10: when no healthy server with enough space is available, AllocateChunks
\* returns success = false, in replicated and in erasure-coded mode.
C10_NoServerFails ==
    (AllocReturned /\ RoomAtCall = {}) => ~alloc_call.response.success

(***************************************************************************)
(* ChunkAllocator: rebalancing and the reallocation of a chunk.            *)
(***************************************************************************)
\* std::accumulate over the first n elements of f
RECURSIVE accumulate(_, _)
accumulate(f, n) == IF n = 0 THEN 0 ELSE f[n] + accumulate(f, n - 1)

\* a server's load in thousandths (every disk of the cluster is reported
\* either empty or full, which makes the division exact)
loadPerMille(server) ==
    Bind(calculateServerLoad(server), LAMBDA load : load.num \div load.den)

\* the variance of loads as the fraction num / den, in thousandths squared
varianceOf(loads) ==
    IF Len(loads) < 2 THEN [num |-> 0, den |-> 1]
    ELSE Bind(<<accumulate(loads, Len(loads)),
                accumulate([i \in DOMAIN loads |-> loads[i] * loads[i]], Len(loads))>>,
              LAMBDA sums : [num |-> Len(loads) * sums[2] - sums[1] * sums[1],
                             den |-> Len(loads) * Len(loads)])

\* the square of what the code returns (it returns the standard deviation)
calculateClusterLoadVariance(st) ==
    Bind(Bind(getHealthyServers(st),
              LAMBDA healthy_servers :
                  Materialize([i \in DOMAIN healthy_servers |->
                                  loadPerMille(st.servers_[healthy_servers[i]])])),
         varianceOf)

\* load > OVERLOAD_THRESHOLD (0.8)
isOverloaded(server) ==
    Bind(calculateServerLoad(server), LAMBDA load : load.num > 800 * load.den)

\* load < UNDERLOAD_THRESHOLD (0.3)
isUnderloaded(server) ==
    Bind(calculateServerLoad(server), LAMBDA load : load.num < 300 * load.den)

\* the chunks of a server were all last accessed when they were created; the
\* one std::min_element returns is some chunk of the server
findOverloadedServers(st) ==
    Bind(SelectSeq(getHealthyServers(st),
                   LAMBDA s : isOverloaded(st.servers_[s])
                              /\ getChunksForServer(st, s) # {}),
         LAMBDA overloaded :
             [i \in DOMAIN overloaded |->
                 [server |-> overloaded[i],
                  chunk |-> CHOOSE c \in getChunksForServer(st, overloaded[i]) : TRUE]])

findUnderloadedServers(st) ==
    SelectSeq(getHealthyServers(st), LAMBDA s : isUnderloaded(st.servers_[s]))

\* sqrt(variance) > VARIANCE_THRESHOLD (0.3), or some server is overloaded
shouldRebalance(st) ==
    \/ Bind(calculateClusterLoadVariance(st),
            LAMBDA variance : variance.num > 90000 * variance.den)
    \/ findOverloadedServers(st) # <<>>

\* each overloaded server is paired with the last underloaded server left
pairTasks(overloaded_servers, underloaded_servers) ==
    [i \in 1..Min(Len(overloaded_servers), Len(underloaded_servers)) |->
        [chunk_id |-> overloaded_servers[i].chunk,
         source_server |-> overloaded_servers[i].server,
         target_server |-> underloaded_servers[Len(underloaded_servers) - i + 1],
         is_urgent |-> FALSE]]

generateRebalancingTasks(st) ==
    Bind(<<findOverloadedServers(st), findUnderloadedServers(st)>>,
         LAMBDA found : pairTasks(found[1], found[2]))

\* the end of reallocateChunk: got is what allocateServersForChunk returned
reallocated(chunk_id, current_servers, got) ==
    [servers |-> got.servers,
     st |-> updateChunkLocations(got.st, chunk_id, current_servers \o got.servers)]

reallocateOnto(st, chunk_id, current_servers, servers_needed, seed) ==
    IF servers_needed <= 0 THEN [servers |-> current_servers, st |-> st]
    ELSE Bind(allocateServersForChunk(st, chunk_id \o "_realloc", servers_needed,
                                      current_servers, seed),
              LAMBDA got : reallocated(chunk_id, current_servers, got))

reallocateChunk(st, chunk_id, failed_servers, seed) ==
    IF chunk_id \notin DOMAIN st.chunks_ THEN [servers |-> <<>>, st |-> st]
    ELSE Bind(Without(st.chunks_[chunk_id].server_locations, Range(failed_servers)),
              LAMBDA current_servers :
                  reallocateOnto(st, chunk_id, current_servers,
                      (IF st.chunks_[chunk_id].is_erasure_coded THEN 1
                       ELSE DEFAULT_REPLICATION_FACTOR) - Len(current_servers),
                      seed))

(***************************************************************************)
(* MasterServer: the chunk servers' RPCs, the file RPCs of the download    *)
(* and delete paths, and the heartbeat sweeper.                            *)
(***************************************************************************)
CHECK_INTERVAL_MS == 10000

RegisterChunkServer(st, server_id, total_space, current_time) ==
    registerServer(st, server_id,
        [total_space |-> total_space, free_space |-> total_space,
         cpu_usage |-> 0, memory_usage |-> 0, is_healthy |-> TRUE,
         last_heartbeat |-> current_time, stored_chunks |-> {}])

\* the second half of SendHeartbeat, on the tables after updateServerMetadata
heartbeatResponse(st) ==
    [st |-> st,
     response |-> [success |-> TRUE,
                   replication_tasks |-> IF shouldRebalance(st)
                                         THEN generateRebalancingTasks(st)
                                         ELSE <<>>,
                   chunks_to_delete |-> <<>>]]

SendHeartbeat(st, request, current_time) ==
    IF request.server_id \notin DOMAIN st.servers_
    THEN [st |-> st,
          response |-> [success |-> FALSE, replication_tasks |-> <<>>,
                        chunks_to_delete |-> <<>>]]
    ELSE Bind(updateServerMetadata(st, request.server_id,
                  [st.servers_[request.server_id] EXCEPT
                      !.free_space = request.free_space,
                      !.cpu_usage = request.cpu_usage,
                      !.memory_usage = request.memory_usage,
                      !.last_heartbeat = current_time,
                      !.is_healthy = TRUE,
                      !.stored_chunks = request.stored_chunks]),
              heartbeatResponse)

\* scheduleReplication only writes a log line
scheduleReplication(st, chunk_id, target_servers) == st

\* one iteration of handleServerFailure's loop, after removeChunkFromServer
replaceFailedReplica(st, chunk_id, server_id, seed) ==
    IF chunk_id \in DOMAIN st.chunks_
       /\ Len(st.chunks_[chunk_id].server_locations)
            < (IF st.chunks_[chunk_id].is_erasure_coded THEN 1
               ELSE DEFAULT_REPLICATION_FACTOR)
    THEN Bind(reallocateChunk(st, chunk_id, <<server_id>>, seed),
              LAMBDA got : scheduleReplication(got.st, chunk_id, got.servers))
    ELSE st

\* the loop of handleServerFailure over the chunks the server held
RECURSIVE handleFailedChunks(_, _, _, _)
handleFailedChunks(st, chunks, server_id, seed) ==
    IF chunks = {} THEN st
    ELSE Bind(Bind(removeChunkFromServer(st, CHOOSE c \in chunks : TRUE, server_id),
                   LAMBDA removed : replaceFailedReplica(removed,
                                        CHOOSE c \in chunks : TRUE, server_id, seed)),
              LAMBDA replaced : handleFailedChunks(replaced,
                                    chunks \ {CHOOSE c \in chunks : TRUE},
                                    server_id, seed))

handleServerFailure(st, server_id, seed) ==
    Bind(markServerUnhealthy(st, server_id),
         LAMBDA marked : handleFailedChunks(marked, getChunksForServer(st, server_id),
                                            server_id, seed))

\* one sweep of monitorHeartbeats over the servers as getAllServers returned
\* them
RECURSIVE sweepServers(_, _, _, _, _)
sweepServers(st, servers, ids, current_time, seed) ==
    IF ids = <<>> THEN st
    ELSE Bind(<<IF servers[Head(ids)].is_healthy
                   /\ current_time - servers[Head(ids)].last_heartbeat
                        > HEARTBEAT_TIMEOUT_MS
                THEN handleServerFailure(st, Head(ids), seed)
                ELSE st,
                Tail(ids)>>,
              LAMBDA next : sweepServers(next[1], servers, next[2], current_time, seed))

monitorHeartbeats(st, current_time, seed) ==
    Bind(Ascending(DOMAIN st.servers_),
         LAMBDA ids : sweepServers(st, st.servers_, ids, current_time, seed))

\* the addresses of the chunk's locations that are registered servers
convertChunkMetadataToProto(st, chunk_id) ==
    [chunk_id |-> chunk_id,
     server_addresses |-> SelectSeq(st.chunks_[chunk_id].server_locations,
                                    LAMBDA s : s \in DOMAIN st.servers_)]

\* a chunk id without metadata is left out of the file's chunk list
convertFileMetadataToProto(st, metadata) ==
    LET known == SelectSeq(metadata.chunk_ids, LAMBDA c : c \in DOMAIN st.chunks_)
    IN  [filename |-> metadata.filename, size |-> metadata.size,
         chunks |-> [i \in DOMAIN known |-> convertChunkMetadataToProto(st, known[i])]]

GetFileInfo(st, filename) ==
    IF filename \notin DOMAIN st.files_ THEN [found |-> FALSE]
    ELSE [found |-> TRUE,
          file_info |-> convertFileMetadataToProto(st, st.files_[filename])]

\* CompleteUpload only refreshes the file's modified_time and always succeeds
CompleteUpload(st, file_id) == [st |-> st, response |-> [success |-> TRUE]]

DeleteChunk(st, chunk_id) ==
    [st |-> removeChunk(st, chunk_id),
     response |-> [success |-> chunk_id \in DOMAIN st.chunks_]]

\* the loop of deleteFile over the file's chunk ids
RECURSIVE deleteFileChunks(_, _)
deleteFileChunks(st, chunk_ids) ==
    IF chunk_ids = <<>> THEN st
    ELSE deleteFileChunks(eraseChunk(removeChunkFromAllServers(st, Head(chunk_ids)),
                                     Head(chunk_ids)),
                          Tail(chunk_ids))

deleteFile(st, filename) ==
    IF filename \notin DOMAIN st.files_ THEN st
    ELSE [deleteFileChunks(st, st.files_[filename].chunk_ids)
             EXCEPT !.files_ = Drop(st.files_, filename)]

DeleteFile(st, filename) ==
    [st |-> deleteFile(st, filename),
     response |-> [success |-> filename \in DOMAIN st.files_]]

(***************************************************************************)
(* ChunkStorage and ChunkServer.  A byte string is a sequence of runs of   *)
(* bytes of the uploaded file; the empty sequence is the empty string.  A  *)
(* store maps each stored chunk id to its data file and its checksum.      *)
(***************************************************************************)
\* SHA-256 is taken to be free of collisions
calculateSHA256(data) == <<"sha256", data>>

writeChunk(store, chunk_id, data) ==
    Put(store, chunk_id, [data |-> data, checksum |-> calculateSHA256(data)])

\* the data, or the empty string for a chunk that is missing or corrupted
readChunk(store, chunk_id) ==
    IF chunk_id \notin DOMAIN store THEN <<>>
    ELSE IF calculateSHA256(store[chunk_id].data) # store[chunk_id].checksum THEN <<>>
    ELSE store[chunk_id].data

verifyChunkIntegrity(store, chunk_id) ==
    /\ chunk_id \in DOMAIN store
    /\ store[chunk_id].data # <<>>
    /\ calculateSHA256(store[chunk_id].data) = store[chunk_id].checksum

\* an absent checksum is the empty string
WriteChunk(store, request) ==
    IF request.checksum # <<>> /\ calculateSHA256(request.data) # request.checksum
    THEN [store |-> store, response |-> [success |-> FALSE]]
    ELSE [store |-> writeChunk(store, request.chunk_id, request.data),
          response |-> [success |-> TRUE]]

ReadChunk(store, request) ==
    IF readChunk(store, request.chunk_id) = <<>>
       \/ (request.verify_integrity /\ ~verifyChunkIntegrity(store, request.chunk_id))
    THEN [success |-> FALSE, data |-> <<>>, checksum |-> <<>>]
    ELSE [success |-> TRUE, data |-> readChunk(store, request.chunk_id),
          checksum |-> calculateSHA256(readChunk(store, request.chunk_id))]

\* the response of the server at address to a ReadChunk, or a failed call
\* when no server process listens there
readFrom(address, chunk_id) ==
    IF address \in DOMAIN server_state /\ server_state[address] = "running"
    THEN ReadChunk(storage_[address], [chunk_id |-> chunk_id, verify_integrity |-> TRUE])
    ELSE [success |-> FALSE, data |-> <<>>, checksum |-> <<>>]

\* the store of the server after copyChunkFromServer
copyChunkFromServer(store, chunk_id, source_server) ==
    IF readFrom(source_server, chunk_id).success
    THEN writeChunk(store, chunk_id, readFrom(source_server, chunk_id).data)
    ELSE store

\* a task handler that gives up a chunk it already holds instead of
\* writing it again
handleReplicationTask_giving_up(store, server_id, task) ==
    IF task.target_server # server_id THEN store
    ELSE IF task.chunk_id \in DOMAIN store THEN Drop(store, task.chunk_id)
    ELSE copyChunkFromServer(store, task.chunk_id, task.source_server)

\* the store of server_id after the task: only the target copies
handleReplicationTask(store, server_id, task) ==
    IF task.target_server = server_id
    THEN copyChunkFromServer(store, task.chunk_id, task.source_server)
    ELSE store

(***************************************************************************)
(* The client: Uploader and Downloader.                                    *)
(***************************************************************************)
\* the bytes of a local file of the given size, as runs of at most
\* CHUNK_SIZE bytes
fileData(file_size) ==
    [i \in 1..calculateChunkCount(file_size) |->
        [offset |-> (i - 1) * CHUNK_SIZE,
         length |-> Min(CHUNK_SIZE, file_size - (i - 1) * CHUNK_SIZE)]]

splitFileIntoChunks(file_data) == [i \in DOMAIN file_data |-> <<file_data[i]>>]

RECURSIVE assembleChunks(_)
assembleChunks(chunks) ==
    IF chunks = <<>> THEN <<>> ELSE Head(chunks) \o assembleChunks(Tail(chunks))

\* the servers whose WriteChunk returned status.ok() and response.success()
acknowledgedBy(stores, chunk_id, data, server_addresses) ==
    {a \in Range(server_addresses) :
        /\ a \in DOMAIN server_state
        /\ server_state[a] = "running"
        /\ WriteChunk(stores[a], [chunk_id |-> chunk_id, data |-> data,
                                  checksum |-> calculateSHA256(data)]).response.success}

\* uploadChunk that reports success whatever the servers answered
uploadChunk_always_true(stores, chunk_id, data, server_addresses, success) ==
    [storage_ |-> stores, success |-> TRUE]

\* the loop of uploadChunk over the chunk's servers: the stores after it and
\* whether some server acknowledged the write
RECURSIVE uploadChunk(_, _, _, _, _)
uploadChunk(stores, chunk_id, data, server_addresses, success) ==
    IF server_addresses = <<>> THEN [storage_ |-> stores, success |-> success]
    ELSE IF Head(server_addresses) \in DOMAIN server_state
            /\ server_state[Head(server_addresses)] = "running"
    THEN uploadChunk(
             [stores EXCEPT ![Head(server_addresses)] =
                 WriteChunk(@, [chunk_id |-> chunk_id, data |-> data,
                                checksum |-> calculateSHA256(data)]).store],
             chunk_id, data, Tail(server_addresses),
             success \/ WriteChunk(stores[Head(server_addresses)],
                                   [chunk_id |-> chunk_id, data |-> data,
                                    checksum |-> calculateSHA256(data)]).response.success)
    ELSE uploadChunk(stores, chunk_id, data, Tail(server_addresses), success)

\* the data of the first server whose response succeeds with a matching
\* checksum, or the empty string
RECURSIVE downloadFromServers(_, _)
downloadFromServers(chunk_id, server_addresses) ==
    IF server_addresses = <<>> THEN <<>>
    ELSE IF readFrom(Head(server_addresses), chunk_id).success
            /\ calculateSHA256(readFrom(Head(server_addresses), chunk_id).data)
                 = readFrom(Head(server_addresses), chunk_id).checksum
    THEN readFrom(Head(server_addresses), chunk_id).data
    ELSE downloadFromServers(chunk_id, Tail(server_addresses))

downloadChunk(cache, chunk_id, server_addresses) ==
    IF chunk_id \in DOMAIN cache THEN cache[chunk_id]
    ELSE downloadFromServers(chunk_id, server_addresses)

\* the loop of downloadFile over the chunks of the file info: the chunks
\* downloaded and the cache after it, or failure at the first empty chunk
RECURSIVE downloadChunks(_, _, _)
downloadedChunk(cache, chunk_infos, chunks, chunk_data) ==
    IF chunk_data = <<>>
    THEN [success |-> FALSE, chunks |-> chunks, cache_ |-> cache]
    ELSE downloadChunks(Put(cache, Head(chunk_infos).chunk_id, chunk_data),
                        Tail(chunk_infos), Append(chunks, chunk_data))

downloadChunks(cache, chunk_infos, chunks) ==
    IF chunk_infos = <<>>
    THEN [success |-> TRUE, chunks |-> chunks, cache_ |-> cache]
    ELSE downloadedChunk(cache, chunk_infos, chunks,
             downloadChunk(cache, Head(chunk_infos).chunk_id,
                           Head(chunk_infos).server_addresses))

\* downloadFile given the master's answer to GetFileInfo
downloadFile(cache, info_response) ==
    IF ~info_response.found
    THEN [success |-> FALSE, chunks |-> <<>>, cache_ |-> cache]
    ELSE downloadChunks(cache, info_response.file_info.chunks, <<>>)

(***************************************************************************)
(* The cluster: one master, MaxServers chunk servers with their heartbeat  *)
(* and replication threads, and a client that uploads the file "a" and     *)
(* downloads it.                                                           *)
(***************************************************************************)
Servers == 1..MaxServers

\* sizes of the local file the client uploads
UploadSizes == {1}

\* what a heartbeat of server s reports of its disk and load: an empty disk
\* on a calm machine or, for the first MaxCrowded servers while they are
\* crowded, a full disk on a busy one (getCpuUsage draws from 10..80,
\* getMemoryUsage from 20..70)
heartbeatRequest(s, crowded) ==
    [server_id |-> s,
     free_space |-> IF crowded /\ s <= MaxCrowded THEN 0 ELSE DiskMiB,
     cpu_usage |-> IF crowded /\ s <= MaxCrowded THEN 80 ELSE 10,
     memory_usage |-> IF crowded /\ s <= MaxCrowded THEN 70 ELSE 20,
     stored_chunks |-> DOMAIN storage_[s]]

\* the body of sendHeartbeats for each server of ids in turn: the master's
\* tables after its SendHeartbeat, and the tasks of a successful response
\* pushed on the server's queue
RECURSIVE sendHeartbeats(_, _, _, _)
heartbeatSent(queues, ids, crowded, done) ==
    Bind(<<[queues EXCEPT ![Head(ids)] =
               IF done.response.success
               THEN @ \o done.response.replication_tasks
               ELSE @],
           Tail(ids)>>,
         LAMBDA next : sendHeartbeats(done.st, next[1], next[2], crowded))

sendHeartbeats(st, queues, ids, crowded) ==
    IF ids = <<>> THEN [st |-> st, replication_queue_ |-> queues]
    ELSE Bind(Bind(heartbeatRequest(Head(ids), crowded),
                   LAMBDA request : SendHeartbeat(st, request, now)),
              LAMBDA done : heartbeatSent(queues, ids, crowded, done))

Init ==
    /\ files_ = <<>>
    /\ chunks_ = <<>>
    /\ servers_ = <<>>
    /\ chunk_to_servers_ = <<>>
    /\ server_to_chunks_ = <<>>
    /\ round_robin_index_ = 0
    /\ strategy_ = "LEAST_LOADED"
    /\ server_zones_ = <<>>
    /\ file_ids_issued = 0
    /\ alloc_call = NoCall
    /\ ec_data = <<>>
    /\ ec_availability = <<>>
    /\ ec_blocks = <<>>
    /\ ec_result = [ok |-> FALSE, ub |-> FALSE, data |-> <<>>]
    /\ ec_pc = "off"
    /\ now = 0
    /\ server_state = [s \in Servers |-> "off"]
    /\ storage_ = [s \in Servers |-> <<>>]
    /\ replication_queue_ = [s \in Servers |-> <<>>]
    /\ upload = [pc |-> "idle"]
    /\ cache_ = <<>>
    /\ download = [phase |-> "none"]
    /\ NoMasterThreads
    /\ NoCalls

allocatorVars == <<strategy_, server_zones_, alloc_call, ecVars>>

\* ChunkServer::start: register with the master, then run.  The servers are
\* started in the order of their ids, before the client begins.
StartChunkServer(s) ==
    /\ server_state[s] = "off"
    /\ upload.pc = "idle"
    /\ \A t \in Servers : t < s => server_state[t] # "off"
    /\ SetTables(RegisterChunkServer(Tables, s, DiskMiB, now))
    /\ server_state' = [server_state EXCEPT ![s] = "running"]
    /\ UNCHANGED <<file_ids_issued, allocatorVars, unitVars, callVars, now, storage_,
                   replication_queue_, upload, cache_, download>>

\* ChunkServer::stop, or the process dying, once the client's upload is
\* complete: the queue goes with the process
StopChunkServer(s) ==
    /\ server_state[s] = "running"
    /\ upload.pc = "completed"
    /\ Cardinality({t \in Servers : server_state[t] = "stopped"}) < MaxStopped
    /\ server_state' = [server_state EXCEPT ![s] = "stopped"]
    /\ replication_queue_' = [replication_queue_ EXCEPT ![s] = <<>>]
    /\ UNCHANGED <<masterVars, allocatorVars, unitVars, callVars, now, storage_, upload, cache_,
                   download>>

\* a heartbeat period: every running chunk server sends its heartbeat, in
\* the order of the ids
Heartbeat ==
    /\ \E crowded \in BOOLEAN :
         \E done \in {Bind(Ascending({s \in Servers : server_state[s] = "running"}),
                           LAMBDA ids : sendHeartbeats(Tables, replication_queue_,
                                                       ids, crowded))} :
             /\ \A s \in Servers : Len(done.replication_queue_[s]) <= MaxQueueLen
             /\ SetTables(done.st)
             /\ replication_queue_' = done.replication_queue_
    /\ UNCHANGED <<file_ids_issued, allocatorVars, unitVars, callVars, now, server_state, storage_,
                   upload, cache_, download>>

\* one turn of the loop of ChunkServer::processReplicationTasks; the
\* workers that were notified run in the order of the server ids
ProcessReplicationTask(s) ==
    /\ server_state[s] = "running"
    /\ replication_queue_[s] # <<>>
    /\ \A t \in Servers : t < s => replication_queue_[t] = <<>>
    /\ storage_' = [storage_ EXCEPT ![s] =
                       handleReplicationTask(@, s, Head(replication_queue_[s]))]
    /\ replication_queue_' = [replication_queue_ EXCEPT ![s] = Tail(@)]
    /\ UNCHANGED <<masterVars, allocatorVars, unitVars, callVars, now, server_state, upload, cache_,
                   download>>

\* one sweep of MasterServer::monitorHeartbeats.  A running chunk server
\* sends a heartbeat every HEARTBEAT_INTERVAL_MS, a third of the timeout, so
\* a sweep finds the latest heartbeat of every running server
MonitorHeartbeats ==
    /\ \A s \in Servers :
          server_state[s] = "running" => servers_[s].last_heartbeat = now
    /\ \E seed \in Seeds :
         \E swept \in {Bind(Tables, LAMBDA st : monitorHeartbeats(st, now, seed))} :
             SetTables(swept)
    /\ UNCHANGED <<file_ids_issued, allocatorVars, sysVars, unitVars, callVars>>

\* Two sweeper intervals pass: the first sweep after a server's last
\* heartbeat finds it no older than the timeout, the second one does.  Only
\* the age of the heartbeats matters, so the clock is advanced only once
\* some server has stopped sending them.  A timestamp is only ever
\* subtracted from the current time and the difference compared with the
\* timeout, so once the clock has run for MaxTicks timeouts the passing of
\* time is recorded by moving the timestamps back instead of the clock
\* forward; a heartbeat older than the timeout stays older.
Tick ==
    /\ \E s \in Servers : server_state[s] = "stopped"
    /\ \A s \in Servers :
          server_state[s] = "running" => servers_[s].last_heartbeat = now
    /\ IF now < MaxTicks * 2 * CHECK_INTERVAL_MS
       THEN /\ now' = now + 2 * CHECK_INTERVAL_MS
            /\ servers_' = servers_
       ELSE /\ now' = now
            /\ servers_' =
                 [s \in DOMAIN servers_ |->
                     [servers_[s] EXCEPT !.last_heartbeat =
                         IF @ >= 2 * CHECK_INTERVAL_MS
                         THEN @ - 2 * CHECK_INTERVAL_MS ELSE 0]]
    /\ UNCHANGED <<files_, chunks_, chunk_to_servers_, server_to_chunks_,
                   round_robin_index_, file_ids_issued, allocatorVars, unitVars, callVars,
                   server_state, storage_, replication_queue_, upload, cache_,
                   download>>

\* uploadFile up to the answer to CreateFile; it gives up before the
\* request when Utils::readFile returned no bytes
UploadFileOfSize(file_size) ==
    /\ upload.pc = "idle"
    /\ IF fileData(file_size) = <<>>
       THEN /\ upload' = [pc |-> "failed", message |-> "Failed to read file"]
            /\ UNCHANGED <<files_, chunks_, servers_, chunk_to_servers_,
                           server_to_chunks_, round_robin_index_, file_ids_issued>>
       ELSE /\ \E done \in {CreateFile(Tables, "a", file_size, FALSE,
                                         generateFileId(file_ids_issued + 1))} :
                    /\ SetTables(done.st)
                    /\ upload' = IF done.response.success
                                 THEN [pc |-> "created",
                                       file_id |-> done.response.file_id,
                                       file_data |-> fileData(file_size)]
                                 ELSE [pc |-> "failed"]
            /\ file_ids_issued' = file_ids_issued + 1
    /\ UNCHANGED <<allocatorVars, unitVars, callVars, now, server_state, storage_,
                   replication_queue_, cache_, download>>

UploadCreateFile == \E file_size \in UploadSizes : UploadFileOfSize(file_size)

\* uploadFile from AllocateChunks to the check of the chunk count
UploadAllocateChunks ==
    /\ upload.pc = "created"
    /\ \E seed \in Seeds :
         \E done \in {AllocateChunks(Tables, upload.file_id, FALSE, seed)} :
             /\ SetTables(done.st)
             /\ upload' =
                   IF done.response.success
                      /\ Len(splitFileIntoChunks(upload.file_data))
                           = Len(done.response.allocated_chunks)
                   THEN [upload EXCEPT !.pc = "writing"]
                        @@ [allocated_chunks |-> done.response.allocated_chunks,
                            uploaded_chunk_ids |-> <<>>,
                            acknowledged_by |-> <<>>]
                   ELSE [pc |-> "failed"]
    /\ UNCHANGED <<file_ids_issued, allocatorVars, unitVars, callVars, now, server_state, storage_,
                   replication_queue_, cache_, download>>

\* one turn of uploadFile's loop: uploadChunk writes the chunk to each of
\* its servers and caches it when some server acknowledged
UploadChunk ==
    /\ upload.pc = "writing"
    /\ Len(upload.uploaded_chunk_ids) < Len(upload.allocated_chunks)
    /\ \E i \in {Len(upload.uploaded_chunk_ids) + 1} :
         \E done \in {uploadChunk(storage_, upload.allocated_chunks[i].chunk_id,
                                  splitFileIntoChunks(upload.file_data)[i],
                                  upload.allocated_chunks[i].server_addresses,
                                  FALSE)} :
             /\ storage_' = done.storage_
             /\ cache_' = IF done.success
                          THEN Put(cache_, upload.allocated_chunks[i].chunk_id,
                                   splitFileIntoChunks(upload.file_data)[i])
                          ELSE cache_
             /\ upload' = IF done.success
                          THEN [upload EXCEPT
                                   !.uploaded_chunk_ids =
                                       Append(@, upload.allocated_chunks[i].chunk_id),
                                   !.acknowledged_by =
                                       Append(@, acknowledgedBy(storage_,
                                           upload.allocated_chunks[i].chunk_id,
                                           splitFileIntoChunks(upload.file_data)[i],
                                           upload.allocated_chunks[i].server_addresses))]
                          ELSE [pc |-> "failed"]
    /\ UNCHANGED <<masterVars, allocatorVars, unitVars, callVars, now, server_state,
                   replication_queue_, download>>

\* the end of uploadFile: CompleteUpload
UploadComplete ==
    /\ upload.pc = "writing"
    /\ Len(upload.uploaded_chunk_ids) = Len(upload.allocated_chunks)
    /\ \E done \in {CompleteUpload(Tables, upload.file_id)} :
          /\ SetTables(done.st)
          /\ upload' = [upload EXCEPT !.pc =
                           IF done.response.success THEN "completed" ELSE "failed"]
    /\ UNCHANGED <<file_ids_issued, allocatorVars, unitVars, callVars, now, server_state, storage_,
                   replication_queue_, cache_, download>>

\* downloadFile of "a", by the client that uploaded it or by a client with
\* an empty cache
DownloadFile ==
    /\ upload.pc = "completed"
    /\ \E same_client \in BOOLEAN :
         \E done \in {downloadFile(IF same_client THEN cache_ ELSE <<>>,
                                   GetFileInfo(Tables, "a"))} :
             /\ download' = [phase |-> "returned",
                             success |-> done.success,
                             data |-> IF done.success THEN assembleChunks(done.chunks)
                                      ELSE <<>>,
                             completed |-> upload.pc = "completed"]
             /\ cache_' = IF same_client THEN done.cache_ ELSE cache_
    /\ UNCHANGED <<masterVars, allocatorVars, unitVars, callVars, now, server_state, storage_,
                   replication_queue_, upload>>

\* the master's DeleteChunk RPC for a chunk it knows
DeleteChunkCall ==
    /\ \E chunk_id \in DOMAIN chunks_ : SetTables(DeleteChunk(Tables, chunk_id).st)
    /\ UNCHANGED <<file_ids_issued, allocatorVars, sysVars, unitVars, callVars>>

\* the master's DeleteFile RPC
DeleteFileCall ==
    /\ "a" \in DOMAIN files_
    /\ SetTables(DeleteFile(Tables, "a").st)
    /\ UNCHANGED <<file_ids_issued, allocatorVars, sysVars, unitVars, callVars>>

Next ==
    \/ \E s \in Servers : StartChunkServer(s)
    \/ \E s \in Servers : StopChunkServer(s)
    \/ Heartbeat
    \/ \E s \in Servers : ProcessReplicationTask(s)
    \/ MonitorHeartbeats
    \/ Tick
    \/ UploadCreateFile
    \/ UploadAllocateChunks
    \/ UploadChunk
    \/ UploadComplete
    \/ DownloadFile
    \/ DeleteChunkCall
    \/ DeleteFileCall

Spec == Init /\ [][Next]_vars

\* the cluster and the uploading client, left to themselves: no download
\* and no deletion
ClusterNext ==
    \/ \E s \in Servers : StartChunkServer(s)
    \/ \E s \in Servers : StopChunkServer(s)
    \/ Heartbeat
    \/ \E s \in Servers : ProcessReplicationTask(s)
    \/ MonitorHeartbeats
    \/ Tick
    \/ UploadCreateFile
    \/ UploadAllocateChunks
    \/ UploadChunk
    \/ UploadComplete

\* the threads that keep running: the clock, the master's sweeper, the
\* chunk servers' heartbeat loops and their replication workers
FairSpec ==
    /\ Init /\ [][ClusterNext]_vars
    /\ WF_vars(Tick)
    /\ WF_vars(MonitorHeartbeats)
    /\ WF_vars(Heartbeat)
    /\ \A s \in Servers : WF_vars(ProcessReplicationTask(s))

(***************************************************************************)
(* Properties of the cluster.                                              *)
(***************************************************************************)
\* C1: a downloadFile of a file whose upload completed, when it reports
\* success, has produced exactly the bytes that were uploaded.
C1_DownloadExact ==
    (download.phase = "returned" /\ download.success /\ download.completed)
        => download.data = upload.file_data

\* every chunk id and every server id the master's tables mention
MentionedChunks ==
    DOMAIN chunks_ \cup DOMAIN chunk_to_servers_
    \cup UNION {server_to_chunks_[s] : s \in DOMAIN server_to_chunks_}
    \cup UNION {servers_[s].stored_chunks : s \in DOMAIN servers_}

MentionedServers ==
    DOMAIN servers_ \cup DOMAIN server_to_chunks_
    \cup UNION {chunk_to_servers_[c] : c \in DOMAIN chunk_to_servers_}
    \cup UNION {Range(chunks_[c].server_locations) : c \in DOMAIN chunks_}

InServerLocations(c, s) ==
    c \in DOMAIN chunks_ /\ s \in Range(chunks_[c].server_locations)

InStoredChunks(c, s) == s \in DOMAIN servers_ /\ c \in servers_[s].stored_chunks

\* C2: after every mutation of the master's metadata the four views agree:
\* s is in chunks[c].server_locations iff s is in chunk_to_servers[c] iff c
\* is in server_to_chunks[s] iff c is in servers[s].stored_chunks.
C2_ViewsAgree ==
    \A c \in MentionedChunks : \A s \in MentionedServers :
        /\ InServerLocations(c, s) <=> s \in Get(chunk_to_servers_, c)
        /\ s \in Get(chunk_to_servers_, c) <=> c \in Get(server_to_chunks_, s)
        /\ c \in Get(server_to_chunks_, s) <=> InStoredChunks(c, s)

\* a replication task for the chunk waits in some chunk server's queue (the
\* master keeps no list of repairs of its own)
RepairScheduled(c) ==
    \E s \in Servers : \E i \in DOMAIN replication_queue_[s] :
        replication_queue_[s][i].chunk_id = c

\* C4: each chunk recorded in the master is in the stored_chunks of some
\* healthy server, or has a repair scheduled.
C4_StoredOrRepair ==
    \A c \in DOMAIN chunks_ :
        \/ \E s \in DOMAIN servers_ : servers_[s].is_healthy /\ InStoredChunks(c, s)
        \/ RepairScheduled(c)

\* the chunks of the uploaded file
FileChunks ==
    IF upload.pc = "completed" THEN Range(upload.uploaded_chunk_ids) ELSE {}

\* some chunk server that stored a chunk of the completed file has stopped
HolderStopped ==
    \E s \in Servers :
        /\ server_state[s] = "stopped"
        /\ \E c \in FileChunks : c \in DOMAIN storage_[s]

RunningHealthy(s) ==
    /\ server_state[s] = "running"
    /\ s \in DOMAIN servers_
    /\ servers_[s].is_healthy

\* R running servers are healthy and have room for a chunk
EnoughOthers ==
    Cardinality({s \in Servers : RunningHealthy(s)
                                 /\ hasEnoughSpace(servers_[s], CHUNK_SIZE)})
        >= DEFAULT_REPLICATION_FACTOR

\* the file and its chunks are still recorded in the master
FileKept ==
    /\ "a" \in DOMAIN files_
    /\ FileChunks \subseteq DOMAIN chunks_

\* every chunk of the file is stored, intact, on R running healthy servers
Repaired ==
    \A c \in FileChunks :
        Cardinality({s \in Servers : RunningHealthy(s)
                                     /\ verifyChunkIntegrity(storage_[s], c)})
            >= DEFAULT_REPLICATION_FACTOR

\* C3: once a chunk server holding replicas of a completed file has stopped,
\* and as long as R other healthy servers with space remain and the file is
\* kept, every chunk of the file is eventually stored on R healthy servers
\* again.
C3_EventuallyRepaired ==
    (HolderStopped /\ EnoughOthers /\ FileKept)
        ~> (Repaired \/ ~EnoughOthers \/ ~FileKept)

(***************************************************************************)
(* The space guard over a whole allocation.                                *)
(***************************************************************************)
\* the bytes of the entries 1..n of the returned allocation that list server s
RECURSIVE AssignedBytes(_, _)
AssignedBytes(s, n) ==
    IF n = 0 THEN 0
    ELSE AssignedBytes(s, n - 1)
         + (IF s \in Range(AllocChunks[n].server_addresses)
            THEN AllocChunks[n].size ELSE 0)

\* C11: counting every chunk of the allocation that was assigned to a
\* server, the server's projected free space does not fall below 10% of its
\* total space.
C11_ProjectedFreeSpace ==
    AllocReturned =>
        \A s \in DOMAIN alloc_call.servers_before :
            AssignedBytes(s, Len(AllocChunks)) > 0 =>
                alloc_call.servers_before[s].free_space * MiB
                    - AssignedBytes(s, Len(AllocChunks))
                        >= (alloc_call.servers_before[s].total_space * MiB) \div 10

(***************************************************************************)
(* The master's background threads: the heartbeat sweeper and the          *)
(* persistence thread with its two clean-ups.  cleanupOrphanedChunks and   *)
(* cleanupDeadServers hold metadata_mutex_ (a std::shared_mutex) and call  *)
(* removeChunk resp. unregisterServer, which lock it again on the same     *)
(* thread: undefined behaviour.  Either the second lock never returns (or  *)
(* throws and ends the process), and nobody can take the mutex any more,   *)
(* or the call goes on as if the lock had been granted.                    *)
(***************************************************************************)
removeAllChunksFromServer(st, server_id) ==
    IF server_id \notin DOMAIN st.server_to_chunks_ THEN st
    ELSE
      Bind(st.server_to_chunks_[server_id],
           LAMBDA held :
             [st EXCEPT
               !.chunk_to_servers_ =
                   Materialize([c \in (DOMAIN st.chunk_to_servers_) \cup held |->
                       Get(st.chunk_to_servers_, c)
                           \ (IF c \in held THEN {server_id} ELSE {})]),
               !.chunks_ =
                   Materialize([c \in DOMAIN st.chunks_ |->
                       IF c \in held
                       THEN [st.chunks_[c] EXCEPT
                               !.server_locations = Without(@, {server_id})]
                       ELSE st.chunks_[c]]),
               !.server_to_chunks_ = Put(st.server_to_chunks_, server_id, {})])

unregisterServer(st, server_id) ==
    IF server_id \notin DOMAIN st.servers_ THEN st
    ELSE Bind(removeAllChunksFromServer(st, server_id),
              LAMBDA removed :
                  [removed EXCEPT
                      !.servers_ = Drop(removed.servers_, server_id),
                      !.server_to_chunks_ = Drop(removed.server_to_chunks_, server_id)])

\* the chunks cleanupOrphanedChunks collects: those in no file's chunk_ids
orphanedChunks(st) ==
    {c \in DOMAIN st.chunks_ :
        \A f \in DOMAIN st.files_ : c \notin Range(st.files_[f].chunk_ids)}

RECURSIVE removeChunks(_, _)
removeChunks(st, chunk_ids) ==
    IF chunk_ids = {} THEN st
    ELSE Bind(removeChunk(st, CHOOSE c \in chunk_ids : TRUE),
              LAMBDA removed :
                  removeChunks(removed, chunk_ids \ {CHOOSE c \in chunk_ids : TRUE}))

cleanupOrphanedChunks(st) ==
    Bind(orphanedChunks(st), LAMBDA chunks_to_remove : removeChunks(st, chunks_to_remove))

\* the servers cleanupDeadServers collects
deadServers(st, current_time) ==
    {s \in DOMAIN st.servers_ :
        /\ ~st.servers_[s].is_healthy
        /\ current_time - st.servers_[s].last_heartbeat > HEARTBEAT_TIMEOUT_MS * 2}

RECURSIVE unregisterServers(_, _)
unregisterServers(st, server_ids) ==
    IF server_ids = {} THEN st
    ELSE Bind(unregisterServer(st, CHOOSE s \in server_ids : TRUE),
              LAMBDA removed :
                  unregisterServers(removed, server_ids \ {CHOOSE s \in server_ids : TRUE}))

cleanupDeadServers(st, current_time) ==
    Bind(deadServers(st, current_time),
         LAMBDA servers_to_remove : unregisterServers(st, servers_to_remove))

\* one turn of persistMetadata's loop finds something to remove, and so
\* locks metadata_mutex_ twice
relocksMetadataMutex(st, current_time) ==
    orphanedChunks(st) # {} \/ deadServers(st, current_time) # {}

MasterServers == 1..MaxMasterServers

\* what every step of the threads' model leaves alone
masterIdleVars == <<allocatorVars, storage_, upload, cache_, download, callVars>>

\* ChunkServer::start, before the clock has moved
MasterStartChunkServer(s) ==
    /\ metadata_mutex_ = "free"
    /\ server_state[s] = "off"
    /\ now = 0
    /\ \A t \in MasterServers : t < s => server_state[t] # "off"
    /\ \E done \in {Bind(Tables, LAMBDA st : RegisterChunkServer(st, s, DiskMiB, now))} :
          SetTables(done)
    /\ server_state' = [server_state EXCEPT ![s] = "running"]
    /\ monitor_pc' = "sleeping"
    /\ UNCHANGED <<file_ids_issued, masterIdleVars, now, replication_queue_,
                   metadata_mutex_>>

\* ChunkServer::stop, or the server's crash
MasterStopChunkServer(s) ==
    /\ server_state[s] = "running"
    /\ server_state' = [server_state EXCEPT ![s] = "stopped"]
    /\ monitor_pc' = "sleeping"
    /\ UNCHANGED <<masterVars, masterIdleVars, now, replication_queue_,
                   metadata_mutex_>>

\* the heartbeat loop's "Process chunks to delete": deleteChunk of every
\* listed chunk that the storage holds
RECURSIVE deleteRequestedChunks(_, _)
deleteRequestedChunks(store, chunks_to_delete) ==
    IF chunks_to_delete = <<>> THEN store
    ELSE deleteRequestedChunks(Drop(store, Head(chunks_to_delete)),
                               Tail(chunks_to_delete))

\* one turn of ChunkServer::sendHeartbeats of a server whose last
\* heartbeat is a heartbeat interval old
MasterHeartbeat(s) ==
    /\ metadata_mutex_ = "free"
    /\ server_state[s] = "running"
    /\ servers_[s].last_heartbeat < now
    /\ \E done \in {Bind(Tables,
                         LAMBDA st : SendHeartbeat(st, heartbeatRequest(s, FALSE), now))} :
          /\ SetTables(done.st)
          /\ replication_queue_' =
                [replication_queue_ EXCEPT ![s] =
                    IF done.response.success
                    THEN @ \o done.response.replication_tasks ELSE @]
          /\ storage_' =
                [storage_ EXCEPT ![s] =
                    IF done.response.success
                    THEN deleteRequestedChunks(@, done.response.chunks_to_delete)
                    ELSE @]
    /\ monitor_pc' = "sleeping"
    /\ UNCHANGED <<file_ids_issued, allocatorVars, upload, cache_, download,
                   callVars, now, server_state, metadata_mutex_>>

\* a heartbeat interval passes; every running server has sent the
\* heartbeat of the interval that ends, unless the master no longer
\* answers.  Once the clock has run for MaxClockTicks intervals the
\* timestamps are moved back instead of the clock forward.
MasterTick ==
    /\ metadata_mutex_ = "free" =>
          \A s \in MasterServers :
              server_state[s] = "running" => servers_[s].last_heartbeat = now
    /\ IF now < MaxClockTicks * HEARTBEAT_INTERVAL_MS
       THEN /\ now' = now + HEARTBEAT_INTERVAL_MS
            /\ servers_' = servers_
       ELSE /\ now' = now
            /\ servers_' =
                 [s \in DOMAIN servers_ |->
                     [servers_[s] EXCEPT !.last_heartbeat =
                         IF @ >= HEARTBEAT_INTERVAL_MS
                         THEN @ - HEARTBEAT_INTERVAL_MS ELSE 0]]
    /\ monitor_pc' = "sleeping"
    /\ UNCHANGED <<files_, chunks_, chunk_to_servers_, server_to_chunks_,
                   round_robin_index_, file_ids_issued, masterIdleVars,
                   server_state, replication_queue_, metadata_mutex_>>

\* one sweep of MasterServer::monitorHeartbeats
MasterMonitorHeartbeats ==
    /\ metadata_mutex_ = "free"
    /\ \E seed \in Seeds :
         \E swept \in {Bind(Tables, LAMBDA st : monitorHeartbeats(st, now, seed))} :
             SetTables(swept)
    /\ monitor_pc' = "swept"
    /\ UNCHANGED <<file_ids_issued, masterIdleVars, now, server_state,
                   replication_queue_, metadata_mutex_>>

\* one turn of MasterServer::persistMetadata: saveMetadataToFile, then the
\* two clean-ups
MasterPersistMetadata ==
    /\ metadata_mutex_ = "free"
    /\ IF relocksMetadataMutex(Tables, now)
       THEN \/ /\ metadata_mutex_' = "stuck"
               /\ UNCHANGED <<files_, chunks_, servers_, chunk_to_servers_,
                              server_to_chunks_, round_robin_index_>>
            \/ /\ \E done \in {Bind(Bind(Tables, cleanupOrphanedChunks),
                                      LAMBDA st : cleanupDeadServers(st, now))} :
                      SetTables(done)
               /\ metadata_mutex_' = metadata_mutex_
       ELSE UNCHANGED <<files_, chunks_, servers_, chunk_to_servers_,
                        server_to_chunks_, round_robin_index_, metadata_mutex_>>
    /\ monitor_pc' = "sleeping"
    /\ UNCHANGED <<file_ids_issued, masterIdleVars, now, server_state,
                   replication_queue_>>

\* a client's CreateFile for an upload that it then abandons
MasterCreateFile ==
    /\ metadata_mutex_ = "free"
    /\ "a" \notin DOMAIN files_
    /\ file_ids_issued = 0
    /\ \E done \in {Bind(Tables, LAMBDA st : CreateFile(st, "a", 1, FALSE,
                                            generateFileId(file_ids_issued + 1)))} :
          SetTables(done.st)
    /\ file_ids_issued' = file_ids_issued + 1
    /\ monitor_pc' = "sleeping"
    /\ UNCHANGED <<masterIdleVars, now, server_state, replication_queue_,
                   metadata_mutex_>>

\* the client's AllocateChunks; the client writes no chunk and never calls
\* CompleteUpload
MasterAllocateChunks ==
    /\ metadata_mutex_ = "free"
    /\ "a" \in DOMAIN files_
    /\ files_["a"].chunk_ids = <<>>
    /\ now = 0
    /\ \E seed \in Seeds :
         \E done \in {Bind(Tables, LAMBDA st : AllocateChunks(st, files_["a"].file_id,
                                                              FALSE, seed))} :
             /\ done.response.success
             /\ SetTables(done.st)
    /\ monitor_pc' = "sleeping"
    /\ UNCHANGED <<file_ids_issued, masterIdleVars, now, server_state,
                   replication_queue_, metadata_mutex_>>

MasterNext ==
    \/ \E s \in MasterServers : MasterStartChunkServer(s)
    \/ \E s \in MasterServers : MasterStopChunkServer(s)
    \/ \E s \in MasterServers : MasterHeartbeat(s)
    \/ MasterTick
    \/ MasterMonitorHeartbeats
    \/ MasterPersistMetadata
    \/ MasterCreateFile
    \/ MasterAllocateChunks

MasterSpec == Init /\ [][MasterNext]_vars

\* the threads that keep running: the clock, the sweeper, the persistence
\* thread and the heartbeat loops of the chunk servers
MasterFairSpec ==
    /\ Init /\ [][MasterNext]_vars
    /\ WF_vars(MasterTick)
    /\ WF_vars(MasterMonitorHeartbeats)
    /\ WF_vars(MasterPersistMetadata)
    /\ \A s \in MasterServers : WF_vars(MasterHeartbeat(s))

\* C12: after each run of the heartbeat sweeper, a registered server is
\* marked healthy if and only if now - last_heartbeat < HEARTBEAT_TIMEOUT;
\* a server whose heartbeat is exactly HEARTBEAT_TIMEOUT old is unhealthy.
C12_HealthyIffFresh ==
    monitor_pc = "swept" =>
        \A s \in DOMAIN servers_ :
            servers_[s].is_healthy
                <=> now - servers_[s].last_heartbeat < HEARTBEAT_TIMEOUT_MS

\* unhealthy, and more than twice the timeout without a heartbeat
LongDead(s) ==
    /\ s \in DOMAIN servers_
    /\ ~servers_[s].is_healthy
    /\ now - servers_[s].last_heartbeat > 2 * HEARTBEAT_TIMEOUT_MS

\* gone from the server table and from every chunk-location relation
Unregistered(s) ==
    /\ s \notin DOMAIN servers_
    /\ s \notin DOMAIN server_to_chunks_
    /\ \A c \in DOMAIN chunk_to_servers_ : s \notin chunk_to_servers_[c]
    /\ \A c \in DOMAIN chunks_ : s \notin Range(chunks_[c].server_locations)

\* C13: a server that stays unhealthy without a heartbeat for more than
\* twice the heartbeat timeout is eventually removed from the server table
\* together with all of its chunk-location relations.
C13_DeadServerRemoved ==
    \A s \in MasterServers :
        (server_state[s] = "stopped" /\ LongDead(s)) ~> Unregistered(s)

\* C16: a file that CreateFile made and for which CompleteUpload is never
\* called is eventually removed from the file table by a background sweep,
\* as long as the master's threads keep running.
C16_AbandonedFileSwept ==
    ("a" \in DOMAIN files_)
        ~> ("a" \notin DOMAIN files_ \/ metadata_mutex_ = "stuck")

(***************************************************************************)
(* Concurrent CreateFile calls.  The handler looks the name up with        *)
(* getFileMetadata, which takes metadata_mutex_ shared and releases it,    *)
(* builds the FileMetadata, and calls createFile, which takes the mutex    *)
(* exclusively: two steps per call, and other calls run between them.      *)
(***************************************************************************)
CreateFileNames == {"", "a", "b"}

getFileMetadata(st, filename) == filename \in DOMAIN st.files_

\* the response of a CreateFile call
createFileResponse(filename, success, message, file_id) ==
    [pc |-> "done", filename |-> filename, success |-> success,
     message |-> message, file_id |-> file_id]

\* the first half of the handler: validateFileName and the look-up
CreateFileCheck(c, filename) ==
    /\ create_calls[c].pc = "idle"
    /\ IF ~validateFileName(filename)
       THEN /\ create_calls' = [create_calls EXCEPT ![c] =
                    createFileResponse(filename, FALSE, "Invalid filename", "")]
            /\ file_ids_issued' = file_ids_issued
       ELSE IF getFileMetadata(Tables, filename)
       THEN /\ create_calls' = [create_calls EXCEPT ![c] =
                    createFileResponse(filename, FALSE, "File already exists", "")]
            /\ file_ids_issued' = file_ids_issued
       ELSE /\ create_calls' = [create_calls EXCEPT ![c] =
                    [pc |-> "checked", filename |-> filename,
                     metadata |-> [file_id |-> generateFileId(file_ids_issued + 1),
                                   filename |-> filename, size |-> 1,
                                   chunk_ids |-> <<>>,
                                   is_erasure_coded |-> FALSE]]]
            /\ file_ids_issued' = file_ids_issued + 1
    /\ UNCHANGED <<files_, chunks_, servers_, chunk_to_servers_, server_to_chunks_,
                   round_robin_index_, allocatorVars, sysVars, unitVars,
                   storeVars, write_call, read_call, maintVars, laterVars>>

\* the second half: MetadataManager::createFile and the response
CreateFileInsert(c) ==
    /\ create_calls[c].pc = "checked"
    /\ \E done \in {Bind(Tables, LAMBDA st : createFile(st, create_calls[c].filename,
                                                     create_calls[c].metadata))} :
             \* createFile returns true when it has put the entry in
             /\ SetTables(done)
             /\ create_calls' = [create_calls EXCEPT ![c] =
                    IF done.files_ # files_
                    THEN createFileResponse(create_calls[c].filename, TRUE,
                                            "File created successfully",
                                            create_calls[c].metadata.file_id)
                    ELSE createFileResponse(create_calls[c].filename, FALSE,
                                            "Failed to create file metadata", "")]
    /\ UNCHANGED <<file_ids_issued, allocatorVars, sysVars, unitVars,
                   storeVars, write_call, read_call, maintVars, laterVars>>

CreateNext ==
    \/ \E c \in CreateCalls, filename \in CreateFileNames : CreateFileCheck(c, filename)
    \/ \E c \in CreateCalls : CreateFileInsert(c)

CreateSpec == Init /\ [][CreateNext]_vars

\* the calls on a name that have returned, and those that returned success
ReturnedOn(filename) ==
    {c \in CreateCalls : create_calls[c].pc = "done"
                           /\ create_calls[c].filename = filename}

SucceededOn(filename) == {c \in ReturnedOn(filename) : create_calls[c].success}

\* some call on the name is still between its two halves
PendingOn(filename) ==
    \E c \in CreateCalls : create_calls[c].pc = "checked"
                              /\ create_calls[c].filename = filename

\* C14: for any interleaving of concurrent CreateFile calls, at most one
\* call on a valid name returns success; once every call on the name has
\* returned exactly one has succeeded and every other one was rejected, and
\* the file table holds one entry for the name, that of the successful call.
C14_CreateFileAtomic ==
    \A filename \in CreateFileNames \ {""} :
        /\ Cardinality(SucceededOn(filename)) <= 1
        /\ \A c \in SucceededOn(filename) :
               /\ filename \in DOMAIN files_
               /\ files_[filename].file_id = create_calls[c].file_id
        /\ (ReturnedOn(filename) # {} /\ ~PendingOn(filename)) =>
               /\ Cardinality(SucceededOn(filename)) = 1
               /\ filename \in DOMAIN files_

\* two calls on one name both passed the look-up; both have returned
C14_Witness ==
    \E c1, c2 \in CreateCalls :
        /\ c1 # c2
        /\ create_calls[c1].pc = "done" /\ create_calls[c2].pc = "done"
        /\ create_calls[c1].filename = "a" /\ create_calls[c2].filename = "a"
        /\ create_calls[c1].success
        /\ create_calls[c2].message = "Failed to create file metadata"

(***************************************************************************)
(* The order of uploadFile's RPCs.                                         *)
(***************************************************************************)
\* the chunk servers of the client's cluster, and the sizes of its file
UploadServers == 1..MaxUploadServers

LongUploadSizes == {1, CHUNK_SIZE + 1}

\* ChunkServer::stop, or the process dying, at any moment of the upload
UploadStopChunkServer(s) ==
    /\ server_state[s] = "running"
    /\ server_state' = [server_state EXCEPT ![s] = "stopped"]
    /\ replication_queue_' = [replication_queue_ EXCEPT ![s] = <<>>]
    /\ UNCHANGED <<masterVars, allocatorVars, unitVars, callVars, now, storage_,
                   upload, cache_, download>>

UploadNext ==
    \/ \E s \in UploadServers : StartChunkServer(s)
    \/ \E s \in UploadServers : UploadStopChunkServer(s)
    \/ \E file_size \in LongUploadSizes : UploadFileOfSize(file_size)
    \/ UploadAllocateChunks
    \/ UploadChunk
    \/ UploadComplete

UploadSpec == Init /\ [][UploadNext]_vars

\* the step is uploadFile's CompleteUpload RPC
CompleteUploadIssued ==
    /\ upload.pc = "writing"
    /\ upload'.pc \in {"completed", "failed"}
    /\ Len(upload.uploaded_chunk_ids) = Len(upload.allocated_chunks)

\* C15: uploadFile issues CreateFile, then AllocateChunks, then the
\* WriteChunks of one chunk after the other, then CompleteUpload; it issues
\* CompleteUpload only when every chunk of the file was acknowledged by at
\* least one chunk server, and after a chunk that no server acknowledged it
\* issues nothing more.
C15_UploadOrder ==
    [][/\ upload' # upload =>
            \/ upload.pc = "idle" /\ upload'.pc \in {"created", "failed"}
            \/ upload.pc = "created" /\ upload'.pc \in {"writing", "failed"}
            \/ /\ upload.pc = "writing" /\ upload'.pc = "writing"
               /\ Len(upload.uploaded_chunk_ids) < Len(upload.allocated_chunks)
               /\ upload'.uploaded_chunk_ids =
                      Append(upload.uploaded_chunk_ids,
                             upload.allocated_chunks[
                                 Len(upload.uploaded_chunk_ids) + 1].chunk_id)
               /\ upload'.acknowledged_by[Len(upload'.acknowledged_by)] # {}
            \/ /\ upload.pc = "writing" /\ upload'.pc = "failed"
               /\ Len(upload.uploaded_chunk_ids) < Len(upload.allocated_chunks)
            \/ CompleteUploadIssued
       /\ CompleteUploadIssued =>
            /\ Len(upload.acknowledged_by) = Len(upload.allocated_chunks)
            /\ \A i \in DOMAIN upload.allocated_chunks :
                   /\ upload.uploaded_chunk_ids[i] = upload.allocated_chunks[i].chunk_id
                   /\ upload.acknowledged_by[i] # {}
                   /\ upload.acknowledged_by[i]
                          \subseteq Range(upload.allocated_chunks[i].server_addresses)
      ]_vars

\* CompleteUpload was issued for a file of two chunks, the second of which
\* a single server acknowledged, the other server of the chunk having stopped
C15_Witness ==
    /\ upload.pc = "completed"
    /\ Len(upload.allocated_chunks) = 2
    /\ Cardinality(upload.acknowledged_by[2]) = 1
    /\ Len(upload.allocated_chunks[2].server_addresses) = 2

(***************************************************************************)
(* DeleteFile and the chunk servers: a client uploads a file of one chunk  *)
(* and deletes it, while the chunk servers send their heartbeats.          *)
(***************************************************************************)
\* the client deletes the file once its upload has completed
DeleteUploadedFile ==
    /\ upload.pc = "completed"
    /\ DeleteFileCall

DeleteNext ==
    \/ \E s \in MasterServers : MasterStartChunkServer(s)
    \/ \E s \in MasterServers : MasterHeartbeat(s)
    \/ MasterTick
    \/ UploadCreateFile
    \/ UploadAllocateChunks
    \/ UploadChunk
    \/ UploadComplete
    \/ DeleteUploadedFile

\* the clock and the heartbeat loops keep running
DeleteFairSpec ==
    /\ Init /\ [][DeleteNext]_vars
    /\ WF_vars(MasterTick)
    /\ \A s \in MasterServers : WF_vars(MasterHeartbeat(s))

\* DeleteFile has succeeded on the file the client had uploaded
UploadedFileDeleted == upload.pc = "completed" /\ "a" \notin DOMAIN files_

\* C17: after DeleteFile(f) succeeds, every chunk server that stores a chunk
\* of f eventually receives the chunk id in the chunks_to_delete of a
\* heartbeat response and removes the chunk from its storage.
C17_DeletedChunksRemoved ==
    \A s \in MasterServers :
        (/\ UploadedFileDeleted
         /\ server_state[s] = "running"
         /\ \E c \in FileChunks : c \in DOMAIN storage_[s])
            ~> (\A c \in FileChunks : c \notin DOMAIN storage_[s])

(***************************************************************************)
(* One chunk server's ChunkStorage with its directory: the data file and   *)
(* the .meta sidecar of a chunk, and the two in-memory indices.  Writing a *)
(* file can fail when the file is opened, which leaves the directory as it *)
(* was, or after it was opened, which leaves a truncated file.  A byte     *)
(* string is a sequence of bytes; an unreadable sidecar holds <<>>.        *)
(***************************************************************************)
StoreChunkIds == {"c"}

StoreData == {<<1>>, <<1, 2>>, <<3>>}

\* the checksums a request carries: none, or the SHA-256 of some data
StoreChecksums == {<<>>} \cup {calculateSHA256(data) : data \in StoreData}

\* where a writeChunk fails, if it does
WriteFailures == {"none", "data_open", "data_write", "meta_open", "meta_write"}

Store ==
    [data_files_ |-> data_files_, sidecars_ |-> sidecars_,
     chunk_checksums_ |-> chunk_checksums_, stored_chunks_ |-> stored_chunks_]

SetStore(st) ==
    /\ data_files_' = st.data_files_
    /\ sidecars_' = st.sidecars_
    /\ chunk_checksums_' = st.chunk_checksums_
    /\ stored_chunks_' = st.stored_chunks_

\* Utils::readFile: the bytes, or the empty string for a missing file
readFile(st, chunk_id) ==
    IF chunk_id \in DOMAIN st.data_files_ THEN st.data_files_[chunk_id] ELSE <<>>

\* loadChunkMetadata: whether the sidecar could be read, and its checksum
loadChunkMetadata(st, chunk_id) ==
    IF chunk_id \in DOMAIN st.sidecars_ /\ st.sidecars_[chunk_id] # <<>>
    THEN [loaded |-> TRUE, checksum |-> st.sidecars_[chunk_id]]
    ELSE [loaded |-> FALSE, checksum |-> <<>>]

\* ChunkStorage::writeChunk with the failure it meets and, for a write that
\* fails in the data file, the number of bytes that reached the file
writeChunkOnDisk(st, chunk_id, data, failure, written) ==
    IF failure = "data_open" THEN [st |-> st, success |-> FALSE]
    ELSE IF failure = "data_write"
    THEN [st |-> [st EXCEPT !.data_files_ =
                     Put(st.data_files_, chunk_id, SubSeq(data, 1, written))],
          success |-> FALSE]
    ELSE IF failure = "meta_open"
    THEN [st |-> [st EXCEPT !.data_files_ = Drop(st.data_files_, chunk_id)],
          success |-> FALSE]
    ELSE IF failure = "meta_write"
    THEN [st |-> [st EXCEPT !.data_files_ = Drop(st.data_files_, chunk_id),
                            !.sidecars_ = Put(st.sidecars_, chunk_id, <<>>)],
          success |-> FALSE]
    ELSE [st |-> [data_files_ |-> Put(st.data_files_, chunk_id, data),
                  sidecars_ |-> Put(st.sidecars_, chunk_id, calculateSHA256(data)),
                  chunk_checksums_ |->
                      Put(st.chunk_checksums_, chunk_id, calculateSHA256(data)),
                  stored_chunks_ |-> st.stored_chunks_ \cup {chunk_id}],
          success |-> TRUE]

\* ChunkStorage::readChunk: the data, or the empty string
readChunkOnDisk(st, chunk_id) ==
    IF chunk_id \notin st.stored_chunks_ THEN <<>>
    ELSE IF readFile(st, chunk_id) = <<>> THEN <<>>
    ELSE IF chunk_id \in DOMAIN st.chunk_checksums_
    THEN IF calculateSHA256(readFile(st, chunk_id)) # st.chunk_checksums_[chunk_id]
         THEN <<>> ELSE readFile(st, chunk_id)
    ELSE IF ~loadChunkMetadata(st, chunk_id).loaded
    THEN readFile(st, chunk_id)
    ELSE IF calculateSHA256(readFile(st, chunk_id))
                # loadChunkMetadata(st, chunk_id).checksum
    THEN <<>> ELSE readFile(st, chunk_id)

verifyChunkIntegrityOnDisk(st, chunk_id) ==
    IF chunk_id \notin st.stored_chunks_ THEN FALSE
    ELSE IF readFile(st, chunk_id) = <<>> THEN FALSE
    ELSE IF chunk_id \notin DOMAIN st.chunk_checksums_
    THEN /\ loadChunkMetadata(st, chunk_id).loaded
         /\ calculateSHA256(readFile(st, chunk_id))
                = loadChunkMetadata(st, chunk_id).checksum
    ELSE calculateSHA256(readFile(st, chunk_id)) = st.chunk_checksums_[chunk_id]

\* a deleteChunk that unlinks the files and leaves the indices as they were
deleteChunkOnDisk_files_only(st, chunk_id) ==
    [st |-> [st EXCEPT !.data_files_ = Drop(st.data_files_, chunk_id),
                       !.sidecars_ = Drop(st.sidecars_, chunk_id)],
     success |-> TRUE]

\* ChunkStorage::deleteChunk: both files are unlinked, and the indices are
\* updated when both were there
deleteChunkOnDisk(st, chunk_id) ==
    IF chunk_id \notin st.stored_chunks_ THEN [st |-> st, success |-> FALSE]
    ELSE IF chunk_id \notin DOMAIN st.data_files_
            \/ chunk_id \notin DOMAIN st.sidecars_
    THEN [st |-> [st EXCEPT !.data_files_ = Drop(st.data_files_, chunk_id),
                            !.sidecars_ = Drop(st.sidecars_, chunk_id)],
          success |-> FALSE]
    ELSE [st |-> [data_files_ |-> Drop(st.data_files_, chunk_id),
                  sidecars_ |-> Drop(st.sidecars_, chunk_id),
                  chunk_checksums_ |-> Drop(st.chunk_checksums_, chunk_id),
                  stored_chunks_ |-> st.stored_chunks_ \ {chunk_id}],
          success |-> TRUE]

chunkExists(st, chunk_id) == chunk_id \in st.stored_chunks_

\* ChunkServer::WriteChunk that stores the data whatever checksum came
WriteChunkOnDisk_unverified(st, request, failure, written) ==
    [st |-> writeChunkOnDisk(st, request.chunk_id, request.data, failure, written).st,
     response |->
        IF writeChunkOnDisk(st, request.chunk_id, request.data, failure, written).success
        THEN [success |-> TRUE, message |-> "Chunk written successfully"]
        ELSE [success |-> FALSE, message |-> "Failed to write chunk to storage"]]

\* ChunkServer::WriteChunk
WriteChunkOnDisk(st, request, failure, written) ==
    IF request.checksum # <<>> /\ calculateSHA256(request.data) # request.checksum
    THEN [st |-> st, response |-> [success |-> FALSE, message |-> "Checksum mismatch"]]
    ELSE [st |-> writeChunkOnDisk(st, request.chunk_id, request.data,
                                  failure, written).st,
          response |->
             IF writeChunkOnDisk(st, request.chunk_id, request.data,
                                 failure, written).success
             THEN [success |-> TRUE, message |-> "Chunk written successfully"]
             ELSE [success |-> FALSE, message |-> "Failed to write chunk to storage"]]

\* what every step of the storage's model leaves alone
storageIdleVars ==
    <<masterVars, allocatorVars, sysVars, unitVars, create_calls, maintVars,
      laterVars>>

\* a WriteChunk request reaches the server
StorageReceiveWrite ==
    /\ write_call.pc # "received"
    /\ \E chunk_id \in StoreChunkIds, data \in StoreData, checksum \in StoreChecksums :
          write_call' = [pc |-> "received",
                         request |-> [chunk_id |-> chunk_id, data |-> data,
                                      checksum |-> checksum]]
    /\ UNCHANGED <<storageIdleVars, storeVars, read_call>>

\* the WriteChunk handler runs
StorageWriteChunk ==
    /\ write_call.pc = "received"
    /\ storage_mutex_ = "free"
    /\ \E failure \in WriteFailures :
         \E written \in IF failure = "data_write"
                        THEN 0..(Len(write_call.request.data) - 1) ELSE {0} :
            \E done \in {WriteChunkOnDisk(Store, write_call.request, failure, written)} :
                /\ SetStore(done.st)
                /\ write_call' = [pc |-> "done", request |-> write_call.request,
                                  response |-> done.response]
    /\ UNCHANGED <<storageIdleVars, read_call>>

\* the first half of the ReadChunk handler: storage_->readChunk
StorageReadChunk ==
    /\ read_call.pc # "read"
    /\ storage_mutex_ = "free"
    /\ \E chunk_id \in StoreChunkIds, verify_integrity \in BOOLEAN :
         \E data \in {readChunkOnDisk(Store, chunk_id)} :
            read_call' =
                IF data = <<>>
                THEN [pc |-> "done",
                      request |-> [chunk_id |-> chunk_id,
                                   verify_integrity |-> verify_integrity],
                      response |-> [success |-> FALSE, data |-> <<>>,
                                    checksum |-> <<>>]]
                ELSE [pc |-> "read",
                      request |-> [chunk_id |-> chunk_id,
                                   verify_integrity |-> verify_integrity],
                      data |-> data]
    /\ UNCHANGED <<storageIdleVars, storeVars, write_call>>

\* the second half: verifyChunkIntegrity when asked for, and the response
StorageReadChunkReturn ==
    /\ read_call.pc = "read"
    /\ storage_mutex_ = "free"
    /\ read_call' =
          IF read_call.request.verify_integrity
             /\ ~verifyChunkIntegrityOnDisk(Store, read_call.request.chunk_id)
          THEN [pc |-> "done", request |-> read_call.request,
                response |-> [success |-> FALSE, data |-> <<>>, checksum |-> <<>>]]
          ELSE [pc |-> "done", request |-> read_call.request,
                response |-> [success |-> TRUE, data |-> read_call.data,
                              checksum |-> calculateSHA256(read_call.data)]]
    /\ UNCHANGED <<storageIdleVars, storeVars, write_call>>

\* the heartbeat thread deletes a chunk
StorageDeleteChunk ==
    /\ storage_mutex_ = "free"
    /\ \E chunk_id \in StoreChunkIds : SetStore(deleteChunkOnDisk(Store, chunk_id).st)
    /\ UNCHANGED <<storageIdleVars, write_call, read_call>>

\* the disk corrupts a data file
StorageCorrupt ==
    /\ \E chunk_id \in DOMAIN data_files_, data \in StoreData :
          /\ data # data_files_[chunk_id]
          /\ data_files_' = [data_files_ EXCEPT ![chunk_id] = data]
    /\ UNCHANGED <<storageIdleVars, sidecars_, chunk_checksums_, stored_chunks_,
                   write_call, read_call>>

StorageNext ==
    \/ StorageReceiveWrite
    \/ StorageWriteChunk
    \/ StorageReadChunk
    \/ StorageReadChunkReturn
    \/ StorageDeleteChunk
    \/ StorageCorrupt

StorageSpec == Init /\ [][StorageNext]_vars

\* the step is the WriteChunk handler answering a request whose checksum
\* is not that of its data
MismatchedWriteHandled ==
    /\ write_call.pc = "received"
    /\ write_call'.pc = "done"
    /\ write_call.request.checksum # <<>>
    /\ calculateSHA256(write_call.request.data) # write_call.request.checksum

\* C18: a WriteChunk whose supplied checksum differs from the SHA-256 of the
\* supplied data returns failure and leaves the data file, the sidecar, both
\* in-memory indices and any stored version of the chunk unchanged.
C18_MismatchRejected ==
    [][MismatchedWriteHandled =>
          /\ ~write_call'.response.success
          /\ UNCHANGED storeVars]_vars

\* a write with a wrong checksum was rejected while a version of the chunk
\* is stored
C18_Witness ==
    /\ write_call.pc = "done"
    /\ write_call.response.message = "Checksum mismatch"
    /\ write_call.request.chunk_id \in stored_chunks_
    /\ write_call.request.chunk_id \in DOMAIN data_files_
    /\ data_files_[write_call.request.chunk_id] # write_call.request.data

\* C19: whenever writeChunk has failed, no data file of the chunk remains on
\* disk and the chunk is not visible: chunkExists is false and the id is in
\* neither in-memory index.
C19_FailedWriteInvisible ==
    (/\ write_call.pc = "done"
     /\ write_call.response.message = "Failed to write chunk to storage") =>
        /\ write_call.request.chunk_id \notin DOMAIN data_files_
        /\ ~chunkExists(Store, write_call.request.chunk_id)
        /\ write_call.request.chunk_id \notin DOMAIN chunk_checksums_

\* C20: a ReadChunk with verify_integrity set does not return success
\* together with bytes whose SHA-256 differs from the checksum recorded for
\* the chunk, whatever was corrupted on disk and however WriteChunk and the
\* deletion of the chunk interleave with it.
C20_VerifiedRead ==
    [][(/\ read_call.pc = "read"
        /\ read_call'.pc = "done"
        /\ read_call.request.verify_integrity
        /\ read_call'.response.success) =>
          /\ read_call.request.chunk_id \in DOMAIN chunk_checksums_'
          /\ calculateSHA256(read_call'.response.data)
                = chunk_checksums_'[read_call.request.chunk_id]]_vars

\* what taking storage_mutex_ shared does in a thread that holds it
\* exclusively: the thread blocks or is terminated ("stuck"), or it goes on
RelockOutcomes == {"stuck", "proceeds"}

\* ChunkStorage::performGarbageCollection under the exclusive lock, given
\* what the lock_shared of verifyChunkIntegrity does: the store afterwards
\* and whether the scan came to its end
performGarbageCollection(st, relock) ==
    IF relock = "stuck"
       /\ \E chunk_id \in st.stored_chunks_ : chunk_id \in DOMAIN st.data_files_
    THEN [st |-> st, finished |-> FALSE]
    ELSE LET chunks_to_remove ==
                 {chunk_id \in st.stored_chunks_ :
                     \/ chunk_id \notin DOMAIN st.data_files_
                     \/ ~verifyChunkIntegrityOnDisk(st, chunk_id)}
         IN  [st |-> [data_files_ |->
                         [c \in DOMAIN st.data_files_ \ chunks_to_remove |->
                             st.data_files_[c]],
                      sidecars_ |->
                         [c \in DOMAIN st.sidecars_ \ chunks_to_remove |->
                             st.sidecars_[c]],
                      chunk_checksums_ |->
                         [c \in DOMAIN st.chunk_checksums_ \ chunks_to_remove |->
                             st.chunk_checksums_[c]],
                      stored_chunks_ |-> st.stored_chunks_ \ chunks_to_remove],
              finished |-> TRUE]

\* ChunkServer::performMaintenance wakes up for its next scan
StorageBeginMaintenance ==
    /\ gc_pc # "scanning"
    /\ gc_pc' = "scanning"
    /\ UNCHANGED <<masterVars, allocatorVars, sysVars, unitVars, create_calls,
                   laterVars,
                   storeVars, write_call, read_call, storage_mutex_, delete_call>>

\* the scan itself, all of it under the exclusive lock
StoragePerformGarbageCollection ==
    /\ gc_pc = "scanning"
    /\ storage_mutex_ = "free"
    /\ \E relock \in RelockOutcomes :
         \E done \in {performGarbageCollection(Store, relock)} :
            /\ SetStore(done.st)
            /\ gc_pc' = IF done.finished THEN "finished" ELSE "scanning"
            /\ storage_mutex_' = IF done.finished THEN "free" ELSE "stuck"
    /\ UNCHANGED <<masterVars, allocatorVars, sysVars, unitVars, create_calls,
                   laterVars,
                   write_call, read_call, delete_call>>

\* a write that meets no failure of the disk
StorageWriteChunkOk ==
    /\ write_call.pc = "received"
    /\ storage_mutex_ = "free"
    /\ \E done \in {WriteChunkOnDisk(Store, write_call.request, "none", 0)} :
          /\ SetStore(done.st)
          /\ write_call' = [pc |-> "done", request |-> write_call.request,
                            response |-> done.response]
    /\ UNCHANGED <<storageIdleVars, read_call>>

MaintenanceNext ==
    \/ StorageReceiveWrite
    \/ StorageWriteChunk
    \/ StorageCorrupt
    \/ StorageBeginMaintenance
    \/ StoragePerformGarbageCollection

MaintenanceFairSpec ==
    Init /\ [][MaintenanceNext]_vars /\ WF_vars(StoragePerformGarbageCollection)

\* every chunk of the index has a data file whose SHA-256 is the recorded
\* checksum (primed: in the state the step leads to)
IndexVerified ==
    \A chunk_id \in stored_chunks_' :
        /\ chunk_id \in DOMAIN data_files_'
        /\ chunk_id \in DOMAIN chunk_checksums_'
        /\ calculateSHA256(data_files_'[chunk_id]) = chunk_checksums_'[chunk_id]

\* C21: every maintenance scan of a chunk server terminates, and when it
\* finishes every chunk still listed in the index has a data file on disk
\* whose SHA-256 equals the recorded checksum, the corrupt and the missing
\* ones having been purged.
C21_ScanTerminates ==
    /\ (gc_pc = "scanning") ~> (gc_pc = "finished")
    /\ [][(gc_pc = "scanning" /\ gc_pc' = "finished") => IndexVerified]_vars

(***************************************************************************)
(* A chunks_to_delete entry of a heartbeat response against a WriteChunk   *)
(* of the same chunk.  The heartbeat thread asks chunkExists and then      *)
(* calls deleteChunk: two critical sections of storage_mutex_, between     *)
(* which the write, one critical section, may run.                         *)
(***************************************************************************)
\* sendHeartbeats on one chunks_to_delete entry, in one piece
deleteIfExists(st, chunk_id) ==
    IF chunkExists(st, chunk_id) THEN deleteChunkOnDisk(st, chunk_id).st ELSE st

\* a WriteChunk request reaches the server when no deletion is under way
RaceReceiveWrite ==
    /\ write_call.pc # "received"
    /\ delete_call.pc \in {"idle", "done"}
    /\ \E chunk_id \in StoreChunkIds, data \in StoreData, checksum \in StoreChecksums :
          write_call' = [pc |-> "received",
                         request |-> [chunk_id |-> chunk_id, data |-> data,
                                      checksum |-> checksum]]
    /\ delete_call' = IdleCall
    /\ UNCHANGED <<masterVars, allocatorVars, sysVars, unitVars, create_calls,
                   laterVars,
                   storage_mutex_, gc_pc, storeVars, read_call>>

\* the response reaches the heartbeat thread while a write of the chunk waits
HeartbeatDeletionArrives ==
    /\ write_call.pc = "received"
    /\ delete_call.pc \in {"idle", "done"}
    /\ delete_call' = [pc |-> "arrived", chunk_id |-> write_call.request.chunk_id,
                       before |-> Store]
    /\ UNCHANGED <<masterVars, allocatorVars, sysVars, unitVars, create_calls,
                   laterVars,
                   storage_mutex_, gc_pc, storeVars, write_call, read_call>>

\* storage_->chunkExists(chunk_id)
HeartbeatChunkExists ==
    /\ delete_call.pc = "arrived"
    /\ storage_mutex_ = "free"
    /\ delete_call' =
          [delete_call EXCEPT
              !.pc = IF chunkExists(Store, delete_call.chunk_id)
                     THEN "checked" ELSE "done"] @@
          [checked_before_write |-> write_call.pc = "received",
           deleted_after_write |-> FALSE]
    /\ UNCHANGED <<masterVars, allocatorVars, sysVars, unitVars, create_calls,
                   laterVars,
                   storage_mutex_, gc_pc, storeVars, write_call, read_call>>

\* storage_->deleteChunk(chunk_id)
HeartbeatDeleteChunk ==
    /\ delete_call.pc = "checked"
    /\ storage_mutex_ = "free"
    /\ SetStore(deleteChunkOnDisk(Store, delete_call.chunk_id).st)
    /\ delete_call' = [delete_call EXCEPT
                          !.pc = "done",
                          !.deleted_after_write = write_call.pc = "done"]
    /\ UNCHANGED <<masterVars, allocatorVars, sysVars, unitVars, create_calls,
                   laterVars,
                   storage_mutex_, gc_pc, write_call, read_call>>

RaceNext ==
    \/ RaceReceiveWrite
    \/ StorageWriteChunkOk
    \/ HeartbeatDeletionArrives
    \/ HeartbeatChunkExists
    \/ HeartbeatDeleteChunk

RaceSpec == Init /\ [][RaceNext]_vars

\* the store after the two calls, one after the other, in either order
SerialOutcomes(before, request) ==
    {deleteIfExists(WriteChunkOnDisk(before, request, "none", 0).st,
                    request.chunk_id),
     WriteChunkOnDisk(deleteIfExists(before, request.chunk_id),
                      request, "none", 0).st}

FullyPresent(chunk_id) ==
    /\ chunk_id \in DOMAIN data_files_
    /\ chunk_id \in DOMAIN sidecars_
    /\ chunk_id \in DOMAIN chunk_checksums_
    /\ chunk_id \in stored_chunks_
    /\ sidecars_[chunk_id] = calculateSHA256(data_files_[chunk_id])
    /\ chunk_checksums_[chunk_id] = calculateSHA256(data_files_[chunk_id])

FullyAbsent(chunk_id) ==
    /\ chunk_id \notin DOMAIN data_files_
    /\ chunk_id \notin DOMAIN sidecars_
    /\ chunk_id \notin DOMAIN chunk_checksums_
    /\ chunk_id \notin stored_chunks_

ApplyChunkIds == {"c1", "c2"}
ApplyData == {<<1>>, <<2>>}

\* the stores of intact chunks
ApplyStores ==
    UNION {[ids -> {[data |-> data, checksum |-> calculateSHA256(data)] :
                        data \in ApplyData}] : ids \in SUBSET ApplyChunkIds}

ReplicationTasks ==
    [chunk_id : ApplyChunkIds, source_server : {2, 3}, target_server : {1, 2}]

HeartbeatResponses ==
    [success : {TRUE},
     replication_tasks : {<<>>} \cup {<<task>> : task \in ReplicationTasks},
     chunks_to_delete : {<<>>, <<"c1">>, <<"c2">>, <<"c1", "c2">>}]

ApplyInit ==
    /\ files_ = <<>>
    /\ chunks_ = <<>>
    /\ servers_ = <<>>
    /\ chunk_to_servers_ = <<>>
    /\ server_to_chunks_ = <<>>
    /\ round_robin_index_ = 0
    /\ strategy_ = "LEAST_LOADED"
    /\ server_zones_ = <<>>
    /\ file_ids_issued = 0
    /\ alloc_call = NoCall
    /\ ec_data = <<>>
    /\ ec_availability = <<>>
    /\ ec_blocks = <<>>
    /\ ec_result = [ok |-> FALSE, ub |-> FALSE, data |-> <<>>]
    /\ ec_pc = "off"
    /\ now = 0
    /\ server_state = [s \in Servers |-> IF s \in {1, 2} THEN "running" ELSE "off"]
    /\ \E store1 \in ApplyStores, store2 \in ApplyStores :
          storage_ = [s \in Servers |->
                        IF s = 1 THEN store1 ELSE IF s = 2 THEN store2 ELSE <<>>]
    /\ replication_queue_ = [s \in Servers |-> <<>>]
    /\ upload = [pc |-> "idle"]
    /\ cache_ = <<>>
    /\ download = [phase |-> "none"]
    /\ NoMasterThreads
    /\ NoCalls

RECURSIVE processReplicationTasks(_, _, _)
\* the worker thread empties the queue
processReplicationTasks(store, server_id, queue) ==
    IF queue = <<>> THEN store
    ELSE processReplicationTasks(handleReplicationTask(store, server_id, Head(queue)),
                                 server_id, Tail(queue))

\* the store after one application of the response, the worker having run
\* before the deletions or after them
appliedOnce(store, server_id, response, worker_first) ==
    IF worker_first
    THEN deleteRequestedChunks(
             processReplicationTasks(store, server_id, response.replication_tasks),
             response.chunks_to_delete)
    ELSE processReplicationTasks(
             deleteRequestedChunks(store, response.chunks_to_delete),
             server_id, response.replication_tasks)

applyIdleVars ==
    <<masterVars, allocatorVars, unitVars, create_calls, storeVars, write_call,
      read_call, maintVars, now, server_state, upload, cache_, download,
      endpoint_calls, keys_, cache_manager, cache_call, restart, finalVars>>

\* sendHeartbeats gets the response and queues its tasks
ApplyQueueTasks ==
    /\ response_call.pc \in {"idle", "applied"}
    /\ \E response \in IF response_call.pc = "idle" THEN HeartbeatResponses
                       ELSE {response_call.response} :
          /\ response_call' =
                IF response_call.pc = "idle"
                THEN [pc |-> "queued", response |-> response, times |-> 0,
                      before |-> storage_[1]]
                ELSE [response_call EXCEPT !.pc = "queued"]
          /\ replication_queue_' =
                [replication_queue_ EXCEPT ![1] = @ \o response.replication_tasks]
    /\ response_call.pc = "applied" => response_call.times < MaxApplications
    /\ UNCHANGED <<applyIdleVars, storage_>>

\* sendHeartbeats deletes the chunks the response lists
ApplyDeleteChunks ==
    /\ response_call.pc = "queued"
    /\ storage_' = [storage_ EXCEPT ![1] =
                       deleteRequestedChunks(@, response_call.response.chunks_to_delete)]
    /\ response_call' = [response_call EXCEPT !.pc = "applied", !.times = @ + 1]
    /\ UNCHANGED <<applyIdleVars, replication_queue_>>

\* one turn of the worker's loop
ApplyProcessReplicationTask ==
    /\ replication_queue_[1] # <<>>
    /\ storage_' = [storage_ EXCEPT ![1] =
                       handleReplicationTask(@, 1, Head(replication_queue_[1]))]
    /\ replication_queue_' = [replication_queue_ EXCEPT ![1] = Tail(@)]
    /\ UNCHANGED <<applyIdleVars, response_call>>

ApplyNext ==
    \/ ApplyQueueTasks
    \/ ApplyDeleteChunks
    \/ ApplyProcessReplicationTask

ApplySpec == ApplyInit /\ [][ApplyNext]_vars

\* the response was applied and the worker has nothing left to do
AppliedAndDrained ==
    /\ response_call.pc = "applied"
    /\ replication_queue_[1] = <<>>

\* C23: applying the same heartbeat response (the same chunks_to_delete and
\* the same replication tasks) to a chunk server two or more times leaves
\* the chunk store in the state one application leaves it in.
C23_ResponseIdempotent ==
    AppliedAndDrained =>
        storage_[1] \in {appliedOnce(response_call.before, 1, response_call.response,
                                     worker_first) : worker_first \in BOOLEAN}

\* a response that deletes one chunk and copies another one in was applied
\* three times
C23_Witness ==
    /\ AppliedAndDrained
    /\ response_call.times = MaxApplications
    /\ response_call.response.chunks_to_delete # <<>>
    /\ response_call.response.replication_tasks # <<>>
    /\ \E chunk_id \in DOMAIN storage_[1] : chunk_id \notin DOMAIN response_call.before
    /\ \E chunk_id \in DOMAIN response_call.before : chunk_id \notin DOMAIN storage_[1]

(***************************************************************************)
(* An AllocateChunks and a CompleteUpload for the same file, each on its   *)
(* own thread of the gRPC server.  Both copy the file's metadata out of    *)
(* listFiles() under a shared lock and write their copy back with          *)
(* updateFileMetadata under an exclusive one; between the two the other    *)
(* call may run.  (The modified_time CompleteUpload sets is not part of    *)
(* the model's FileMetadata.)                                              *)
(***************************************************************************)
\* the copy of the file's metadata the loop over listFiles() ends with
snapshotById(st, file_id) ==
    IF fileById(st, file_id) = {} THEN [found |-> FALSE]
    ELSE [found |-> TRUE,
          file_metadata |-> st.files_[CHOOSE n \in fileById(st, file_id) : TRUE]]

endpointIdleVars ==
    <<allocatorVars, sysVars, unitVars, create_calls, storeVars, write_call,
      read_call, maintVars, response_call, keys_, cache_manager, cache_call,
      restart, finalVars>>

EndpointStartChunkServer(s) ==
    /\ MasterStartChunkServer(s)
    /\ UNCHANGED endpoint_calls

EndpointCreateFile ==
    /\ "a" \notin DOMAIN files_
    /\ file_ids_issued = 0
    /\ \E file_size \in LongUploadSizes :
         \E done \in {Bind(Tables, LAMBDA st : CreateFile(st, "a", file_size, FALSE,
                                            generateFileId(file_ids_issued + 1)))} :
            SetTables(done.st)
    /\ file_ids_issued' = file_ids_issued + 1
    /\ UNCHANGED <<endpointIdleVars, endpoint_calls>>

\* AllocateChunks up to its look-up of the file
EndpointAllocateLookup ==
    /\ endpoint_calls.alloc.pc = "idle"
    /\ \E found \in {snapshotById(Tables, generateFileId(1))} :
          endpoint_calls' =
             [endpoint_calls EXCEPT !.alloc =
                 IF found.found
                 THEN [pc |-> "found", file_metadata |-> found.file_metadata]
                 ELSE [pc |-> "done",
                       response |-> [success |-> FALSE, allocated_chunks |-> <<>>]]]
    /\ UNCHANGED <<masterVars, endpointIdleVars>>

\* the rest of AllocateChunks: allocateChunks and updateFileMetadata
EndpointAllocateUpdate ==
    /\ endpoint_calls.alloc.pc = "found"
    /\ \E seed \in Seeds :
         \E done \in {Bind(Tables,
                           LAMBDA st : allocateChunksFor(st,
                                           endpoint_calls.alloc.file_metadata,
                                           FALSE, seed))} :
            /\ SetTables(done.st)
            /\ endpoint_calls' =
                  [endpoint_calls EXCEPT !.alloc =
                      [pc |-> "done", response |-> done.response]]
    /\ UNCHANGED <<file_ids_issued, endpointIdleVars>>

\* CompleteUpload up to its look-up of the file
EndpointCompleteLookup ==
    /\ endpoint_calls.complete.pc = "idle"
    /\ \E found \in {snapshotById(Tables, generateFileId(1))} :
          endpoint_calls' =
             [endpoint_calls EXCEPT !.complete =
                 IF found.found
                 THEN [pc |-> "found", file_metadata |-> found.file_metadata]
                 ELSE [pc |-> "done", found |-> FALSE,
                       response |-> [success |-> TRUE]]]
    /\ UNCHANGED <<masterVars, endpointIdleVars>>

\* the rest of CompleteUpload: updateFileMetadata with the copy
EndpointCompleteUpdate ==
    /\ endpoint_calls.complete.pc = "found"
    /\ \E done \in {Bind(Tables,
                         LAMBDA st : updateFileMetadata(st,
                                         endpoint_calls.complete.file_metadata.filename,
                                         endpoint_calls.complete.file_metadata))} :
          SetTables(done)
    /\ endpoint_calls' =
          [endpoint_calls EXCEPT !.complete =
              [pc |-> "done", found |-> TRUE, response |-> [success |-> TRUE]]]
    /\ UNCHANGED <<file_ids_issued, endpointIdleVars>>

EndpointNext ==
    \/ \E s \in MasterServers : EndpointStartChunkServer(s)
    \/ EndpointCreateFile
    \/ EndpointAllocateLookup
    \/ EndpointAllocateUpdate
    \/ EndpointCompleteLookup
    \/ EndpointCompleteUpdate

EndpointSpec == Init /\ [][EndpointNext]_vars

\* C24: each master write endpoint takes effect as one exclusive write on
\* the metadata store, so that concurrent calls leave what some serial order
\* of them leaves and no update is lost: once an AllocateChunks that
\* succeeded and a CompleteUpload of the same file have both returned, the
\* file's chunk_ids are the ids AllocateChunks handed out.
C24_NoLostUpdate ==
    (/\ endpoint_calls.alloc.pc = "done"
     /\ endpoint_calls.complete.pc = "done"
     /\ endpoint_calls.alloc.response.success) =>
        \A n \in fileById(Tables, generateFileId(1)) :
            files_[n].chunk_ids =
                [i \in DOMAIN endpoint_calls.alloc.response.allocated_chunks |->
                    endpoint_calls.alloc.response.allocated_chunks[i].chunk_id]

\* C30: a master endpoint called with a file id the master does not know
\* surfaces a failure to the caller; in particular a CompleteUpload whose
\* file_id matches no file does not return success.
C30_UnknownIdFails ==
    (/\ endpoint_calls.complete.pc = "done"
     /\ ~endpoint_calls.complete.found) =>
        ~endpoint_calls.complete.response.success

(***************************************************************************)
(* The client's uploadFile with erasure coding asked for, in a cluster of  *)
(* MaxEcServers chunk servers, and downloadFile after chunk servers have   *)
(* stopped.                                                                *)
(***************************************************************************)
EcServers == 1..MaxEcServers

EcUploadInit ==
    /\ files_ = <<>>
    /\ chunks_ = <<>>
    /\ servers_ = <<>>
    /\ chunk_to_servers_ = <<>>
    /\ server_to_chunks_ = <<>>
    /\ round_robin_index_ = 0
    /\ strategy_ = "LEAST_LOADED"
    /\ server_zones_ = <<>>
    /\ file_ids_issued = 0
    /\ alloc_call = NoCall
    /\ ec_data = <<>>
    /\ ec_availability = <<>>
    /\ ec_blocks = <<>>
    /\ ec_result = [ok |-> FALSE, ub |-> FALSE, data |-> <<>>]
    /\ ec_pc = "off"
    /\ now = 0
    /\ server_state = [s \in EcServers |-> "off"]
    /\ storage_ = [s \in EcServers |-> <<>>]
    /\ replication_queue_ = [s \in EcServers |-> <<>>]
    /\ upload = [pc |-> "idle"]
    /\ cache_ = <<>>
    /\ download = [phase |-> "none"]
    /\ NoMasterThreads
    /\ NoCalls

\* the chunk servers that run, all of them registered and healthy
HealthyServers == {s \in DOMAIN server_state : server_state[s] = "running"}

\* ChunkServer::start, before the client begins
EcStartChunkServer(s) ==
    /\ server_state[s] = "off"
    /\ upload.pc = "idle"
    /\ SetTables(RegisterChunkServer(Tables, s, DiskMiB, now))
    /\ server_state' = [server_state EXCEPT ![s] = "running"]
    /\ UNCHANGED <<file_ids_issued, allocatorVars, unitVars, callVars, now, storage_,
                   replication_queue_, upload, cache_, download>>

\* a chunk server stops once the upload is complete; no more of them stop
\* than the code has parity blocks
EcStopChunkServer(s) ==
    /\ server_state[s] = "running"
    /\ upload.pc = "completed"
    /\ Cardinality({t \in EcServers : server_state[t] = "stopped"})
          < ERASURE_CODING_PARITY_BLOCKS
    /\ server_state' = [server_state EXCEPT ![s] = "stopped"]
    /\ replication_queue_' = [replication_queue_ EXCEPT ![s] = <<>>]
    /\ UNCHANGED <<masterVars, allocatorVars, unitVars, callVars, now, storage_,
                   upload, cache_, download>>

\* uploadFile(local, "a", false, true) up to the answer to CreateFile
EcUploadFileOfSize(file_size) ==
    /\ upload.pc = "idle"
    /\ \E done \in {CreateFile(Tables, "a", file_size, TRUE,
                               generateFileId(file_ids_issued + 1))} :
          /\ SetTables(done.st)
          /\ upload' = IF done.response.success
                       THEN [pc |-> "created",
                             file_id |-> done.response.file_id,
                             file_data |-> fileData(file_size),
                             healthy_servers |-> Cardinality(HealthyServers)]
                       ELSE [pc |-> "failed",
                             healthy_servers |-> Cardinality(HealthyServers)]
    /\ file_ids_issued' = file_ids_issued + 1
    /\ UNCHANGED <<allocatorVars, unitVars, callVars, now, server_state, storage_,
                   replication_queue_, cache_, download>>

\* the same from AllocateChunks to the check of the chunk count
EcUploadAllocateChunks ==
    /\ upload.pc = "created"
    /\ \E seed \in Seeds :
         \E done \in {AllocateChunks(Tables, upload.file_id, TRUE, seed)} :
             /\ SetTables(done.st)
             /\ upload' =
                   IF done.response.success
                      /\ Len(splitFileIntoChunks(upload.file_data))
                           = Len(done.response.allocated_chunks)
                   THEN [upload EXCEPT !.pc = "writing"]
                        @@ [allocated_chunks |-> done.response.allocated_chunks,
                            uploaded_chunk_ids |-> <<>>,
                            acknowledged_by |-> <<>>]
                   ELSE [pc |-> "failed",
                         healthy_servers |-> upload.healthy_servers]
    /\ UNCHANGED <<file_ids_issued, allocatorVars, unitVars, callVars, now,
                   server_state, storage_, replication_queue_, cache_, download>>

EcUploadNext ==
    \/ \E s \in EcServers : EcStartChunkServer(s)
    \/ \E s \in EcServers : EcStopChunkServer(s)
    \/ \E file_size \in LongUploadSizes : EcUploadFileOfSize(file_size)
    \/ EcUploadAllocateChunks
    \/ UploadChunk
    \/ UploadComplete
    \/ DownloadFile

EcUploadSpec == EcUploadInit /\ [][EcUploadNext]_vars

\* C25: with k = 4, m = 2 and at least 6 healthy chunk servers, uploadFile
\* with erasure coding enabled succeeds for a non-empty file, and after any
\* 2 of the chunk servers have stopped downloadFile still succeeds and
\* returns exactly the uploaded bytes.
C25_EcUploadSurvives ==
    (upload.pc # "idle"
     /\ upload.healthy_servers
           >= ERASURE_CODING_DATA_BLOCKS + ERASURE_CODING_PARITY_BLOCKS) =>
        /\ upload.pc # "failed"
        /\ download.phase = "returned" =>
              /\ download.success
              /\ download.data = assembleChunks(splitFileIntoChunks(upload.file_data))

(***************************************************************************)
(* Encryption.  KeyManager is a singleton of the process it is linked      *)
(* into: the master's CreateFile stores the file's key in the master's     *)
(* instance, the client's uploadFile looks it up in the instance of the    *)
(* process the client runs in, which is the master's only when both run in *)
(* one process.  A key is a string, modelled by its length and the number  *)
(* of the draw that produced it.                                           *)
(***************************************************************************)
KEY_SIZE == 32

\* Crypto::generateRandomKey: KEY_SIZE random bytes, written as hex digits
generateRandomKey(n) == [size |-> 2 * KEY_SIZE, draw |-> n]

hasKey(keys, key_id) == key_id \in DOMAIN keys

\* KeyManager::getKey: the key, or the empty string
getKey(keys, key_id) ==
    IF key_id \in DOMAIN keys THEN keys[key_id] ELSE [size |-> 0, draw |-> 0]

\* Crypto::encrypt: IV, ciphertext and tag, or nothing for a key of the
\* wrong size
encrypt(plaintext, key) ==
    IF key.size # KEY_SIZE THEN <<>>
    ELSE <<[ciphertext_of |-> plaintext, under |-> key]>>

encryptChunk(keys, chunk_data, key_id) ==
    IF getKey(keys, key_id).size = 0 THEN <<>>
    ELSE encrypt(chunk_data, getKey(keys, key_id))

\* the processes the client may run in
Processes == {"master", "client"}

\* uploadFile(local, "a", true, false) up to the answer to CreateFile, which
\* stores the new file's key in the master's KeyManager
EncUploadFileOfSize(file_size) ==
    /\ upload.pc = "idle"
    /\ \E process \in Processes :
         \E done \in {CreateFile(Tables, "a", file_size, FALSE,
                                 generateFileId(file_ids_issued + 1))} :
            /\ SetTables(done.st)
            /\ keys_' = IF done.response.success
                        THEN [keys_ EXCEPT !.master =
                                 Put(@, done.response.file_id \o "_key",
                                     generateRandomKey(file_ids_issued + 1))]
                        ELSE keys_
            /\ upload' = IF done.response.success
                         THEN [pc |-> "created",
                               file_id |-> done.response.file_id,
                               file_data |-> fileData(file_size),
                               process |-> process]
                         ELSE [pc |-> "failed", message |-> "Failed to create file"]
    /\ file_ids_issued' = file_ids_issued + 1
    /\ UNCHANGED <<allocatorVars, unitVars, create_calls, storeVars, write_call,
                   read_call, maintVars, response_call, endpoint_calls, now,
                   server_state, storage_, replication_queue_, cache_, download,
                   cache_manager, cache_call, restart, finalVars>>

EncUploadAllocateChunks ==
    /\ upload.pc = "created"
    /\ \E seed \in Seeds :
         \E done \in {AllocateChunks(Tables, upload.file_id, FALSE, seed)} :
             /\ SetTables(done.st)
             /\ upload' =
                   IF done.response.success
                      /\ Len(splitFileIntoChunks(upload.file_data))
                           = Len(done.response.allocated_chunks)
                   THEN [upload EXCEPT !.pc = "writing"]
                        @@ [allocated_chunks |-> done.response.allocated_chunks,
                            uploaded_chunk_ids |-> <<>>,
                            acknowledged_by |-> <<>>]
                   ELSE [pc |-> "failed", message |-> "Failed to allocate chunks"]
    /\ UNCHANGED <<file_ids_issued, allocatorVars, unitVars, callVars, now,
                   server_state, storage_, replication_queue_, cache_, download>>

\* one turn of uploadFile's loop with enable_encryption set
EncUploadChunk ==
    /\ upload.pc = "writing"
    /\ "process" \in DOMAIN upload
    /\ Len(upload.uploaded_chunk_ids) < Len(upload.allocated_chunks)
    /\ \E i \in {Len(upload.uploaded_chunk_ids) + 1} :
         \E chunk_data \in {encryptChunk(keys_[upload.process],
                                         splitFileIntoChunks(upload.file_data)[i],
                                         upload.file_id \o "_key")} :
            IF ~hasKey(keys_[upload.process], upload.file_id \o "_key")
            THEN /\ upload' = [pc |-> "failed", message |-> "Encryption key not found"]
                 /\ UNCHANGED <<storage_, cache_>>
            ELSE IF chunk_data = <<>>
            THEN /\ upload' = [pc |-> "failed", message |-> "Failed to encrypt chunk"]
                 /\ UNCHANGED <<storage_, cache_>>
            ELSE \E done \in {uploadChunk(storage_, upload.allocated_chunks[i].chunk_id,
                                          chunk_data,
                                          upload.allocated_chunks[i].server_addresses,
                                          FALSE)} :
                    /\ storage_' = done.storage_
                    /\ cache_' = IF done.success
                                 THEN Put(cache_, upload.allocated_chunks[i].chunk_id,
                                          chunk_data)
                                 ELSE cache_
                    /\ upload' =
                          IF done.success
                          THEN [upload EXCEPT
                                   !.uploaded_chunk_ids =
                                       Append(@, upload.allocated_chunks[i].chunk_id)]
                          ELSE [pc |-> "failed", message |-> "Failed to upload chunk"]
    /\ UNCHANGED <<masterVars, allocatorVars, unitVars, callVars, now, server_state,
                   replication_queue_, download>>

EncUploadNext ==
    \/ \E s \in UploadServers : StartChunkServer(s)
    \/ \E s \in UploadServers : UploadStopChunkServer(s)
    \/ \E file_size \in LongUploadSizes : EncUploadFileOfSize(file_size)
    \/ EncUploadAllocateChunks
    \/ EncUploadChunk

EncUploadSpec == Init /\ [][EncUploadNext]_vars

\* C26: uploading a non-empty file with encryption enabled succeeds and
\* stores only ciphertext on the chunk servers; a later download by a client
\* that holds the file's key returns the plaintext and one by a client that
\* does not hold it fails.  The upload, then, does not fail for want of a key
\* or of a ciphertext.
C26_EncryptedUpload ==
    upload.pc = "failed" =>
        upload.message \notin {"Encryption key not found", "Failed to encrypt chunk"}

(***************************************************************************)
(* CacheManager with the size and the time of last access of every entry.  *)
(* A chunk's data is a sequence of bytes.  The unordered_map is walked in  *)
(* an order the program does not choose: every operation is given the      *)
(* order, a sequence of all chunk ids.  The clock is in milliseconds, so   *)
(* that several operations may read the same time.                         *)
(***************************************************************************)
CacheChunkIds == {"c1", "c2", "c3"}

\* chunks of 1 byte, of 2 bytes, and one byte larger than the capacity
CacheData == {[i \in 1..n |-> 7] : n \in {1, 2, MaxCacheSize + 1}}

IterationOrders ==
    {order \in [1..Cardinality(CacheChunkIds) -> CacheChunkIds] :
        \A i, j \in DOMAIN order : i # j => order[i] # order[j]}

\* the entry that evicts whatever the iteration meets first
evictLRU_first(cm, order) ==
    IF DOMAIN cm.cache_ = {} THEN cm
    ELSE LET first == Head(SelectSeq(order, LAMBDA id : id \in DOMAIN cm.cache_))
         IN  [cache_ |-> Drop(cm.cache_, first),
              total_size_ |-> cm.total_size_ - cm.cache_[first].size]

\* the loop of evictLRU over the entries that follow oldest
RECURSIVE oldestEntry(_, _, _)
oldestEntry(cache, entries, oldest) ==
    IF entries = <<>> THEN oldest
    ELSE oldestEntry(cache, Tail(entries),
                     IF cache[Head(entries)].last_accessed < cache[oldest].last_accessed
                     THEN Head(entries) ELSE oldest)

evictLRU(cm, order) ==
    IF DOMAIN cm.cache_ = {} THEN cm
    ELSE LET entries == SelectSeq(order, LAMBDA id : id \in DOMAIN cm.cache_)
             oldest == oldestEntry(cm.cache_, entries, Head(entries))
         IN  [cache_ |-> Drop(cm.cache_, oldest),
              total_size_ |-> cm.total_size_ - cm.cache_[oldest].size]

\* the loop "Evict if necessary" of put
RECURSIVE evictWhileFull(_, _, _)
evictWhileFull(cm, size, order) ==
    IF cm.total_size_ + size > MaxCacheSize /\ DOMAIN cm.cache_ # {}
    THEN evictWhileFull(evictLRU(cm, order), size, order)
    ELSE cm

\* what the same loop evicted: the time of each evicted entry and the times
\* of the entries that were left
RECURSIVE evictionsWhileFull(_, _, _)
evictionsWhileFull(cm, size, order) ==
    IF cm.total_size_ + size > MaxCacheSize /\ DOMAIN cm.cache_ # {}
    THEN <<[evicted |-> {cm.cache_[id].last_accessed :
                            id \in DOMAIN cm.cache_ \ DOMAIN evictLRU(cm, order).cache_},
            kept |-> {cm.cache_[id].last_accessed :
                            id \in DOMAIN evictLRU(cm, order).cache_}]>>
         \o evictionsWhileFull(evictLRU(cm, order), size, order)
    ELSE <<>>

cachePut(cm, chunk_id, data, current_time, order) ==
    IF chunk_id \in DOMAIN cm.cache_
    THEN [cache_ |-> [cm.cache_ EXCEPT ![chunk_id] =
                         [data |-> data, size |-> Len(data),
                          last_accessed |-> current_time]],
          total_size_ |-> cm.total_size_ - cm.cache_[chunk_id].size + Len(data)]
    ELSE [cache_ |-> Put(evictWhileFull(cm, Len(data), order).cache_, chunk_id,
                         [data |-> data, size |-> Len(data),
                          last_accessed |-> current_time]),
          total_size_ |-> evictWhileFull(cm, Len(data), order).total_size_ + Len(data)]

cacheGet(cm, chunk_id, current_time) ==
    IF chunk_id \in DOMAIN cm.cache_
    THEN [cm EXCEPT !.cache_[chunk_id].last_accessed = current_time]
    ELSE cm

cacheRemove(cm, chunk_id) ==
    IF chunk_id \in DOMAIN cm.cache_
    THEN [cache_ |-> Drop(cm.cache_, chunk_id),
          total_size_ |-> cm.total_size_ - cm.cache_[chunk_id].size]
    ELSE cm

cacheIdleVars ==
    <<masterVars, allocatorVars, unitVars, create_calls, storeVars, write_call,
      read_call, maintVars, response_call, endpoint_calls, keys_, server_state,
      storage_, replication_queue_, upload, cache_, download, restart, finalVars>>

CachePut ==
    /\ \E chunk_id \in CacheChunkIds, data \in CacheData, order \in IterationOrders :
          /\ cache_manager' = cachePut(cache_manager, chunk_id, data, now, order)
          /\ cache_call' =
                [op |-> "put",
                 evictions |-> IF chunk_id \in DOMAIN cache_manager.cache_ THEN <<>>
                               ELSE evictionsWhileFull(cache_manager, Len(data), order)]
    /\ UNCHANGED <<cacheIdleVars, now>>

CacheGet ==
    /\ \E chunk_id \in CacheChunkIds :
          cache_manager' = cacheGet(cache_manager, chunk_id, now)
    /\ cache_call' = [op |-> "get", evictions |-> <<>>]
    /\ UNCHANGED <<cacheIdleVars, now>>

CacheRemove ==
    /\ \E chunk_id \in CacheChunkIds :
          cache_manager' = cacheRemove(cache_manager, chunk_id)
    /\ cache_call' = [op |-> "remove", evictions |-> <<>>]
    /\ UNCHANGED <<cacheIdleVars, now>>

\* a millisecond passes
CacheTick ==
    /\ now < MaxCacheClock
    /\ now' = now + 1
    /\ UNCHANGED <<cacheIdleVars, cache_manager, cache_call>>

CacheNext ==
    \/ CachePut
    \/ CacheGet
    \/ CacheRemove
    \/ CacheTick

CacheSpec == Init /\ [][CacheNext]_vars

\* C27: whenever the client cache evicts, the entry removed is one whose
\* last access (put or get) is not more recent than that of any other cached
\* entry: no entry is evicted while one whose last access is older remains.
C27_EvictsLeastRecent ==
    \A i \in DOMAIN cache_call.evictions :
        \A evicted \in cache_call.evictions[i].evicted,
           kept \in cache_call.evictions[i].kept : evicted <= kept

\* a put evicted an entry and left one that was used later
C27_Witness ==
    /\ cache_call.op = "put"
    /\ \E i \in DOMAIN cache_call.evictions :
          /\ cache_call.evictions[i].evicted # {}
          /\ \E evicted \in cache_call.evictions[i].evicted,
                kept \in cache_call.evictions[i].kept : evicted < kept

\* C28: after every CacheManager operation the total size of the cached
\* chunk bytes is at most the configured capacity, also after a put that
\* replaces an existing key with larger data and after a put of a single
\* item larger than the capacity.
C28_WithinCapacity == cache_manager.total_size_ <= MaxCacheSize

(***************************************************************************)
(* The master's metadata file.  The JSON document is modelled by its three *)
(* arrays, each the set of its objects; an object has the members that     *)
(* serializeMetadata writes, of the fields the model keeps.                *)
(***************************************************************************)
serializeMetadata(st) ==
    [files |-> {[filename |-> filename,
                 file_id |-> st.files_[filename].file_id,
                 size |-> st.files_[filename].size,
                 is_erasure_coded |-> st.files_[filename].is_erasure_coded,
                 chunk_ids |-> st.files_[filename].chunk_ids] :
                    filename \in DOMAIN st.files_},
     chunks |-> {[chunk_id |-> chunk_id,
                  is_erasure_coded |-> st.chunks_[chunk_id].is_erasure_coded,
                  server_locations |-> st.chunks_[chunk_id].server_locations] :
                    chunk_id \in DOMAIN st.chunks_},
     servers |-> {[server_id |-> server_id,
                   total_space |-> st.servers_[server_id].total_space,
                   free_space |-> st.servers_[server_id].free_space,
                   cpu_usage |-> st.servers_[server_id].cpu_usage,
                   memory_usage |-> st.servers_[server_id].memory_usage,
                   is_healthy |-> st.servers_[server_id].is_healthy,
                   last_heartbeat |-> st.servers_[server_id].last_heartbeat] :
                    server_id \in DOMAIN st.servers_}]

\* the tables deserializeMetadata builds; the two relations come from the
\* chunks' server_locations, and a server's stored_chunks from the relation
deserializeMetadata(data) ==
    LET file_json(filename) == CHOOSE f \in data.files : f.filename = filename
        chunk_json(chunk_id) == CHOOSE c \in data.chunks : c.chunk_id = chunk_id
        server_json(server_id) == CHOOSE v \in data.servers : v.server_id = server_id
        located == {c \in data.chunks : c.server_locations # <<>>}
        holders == UNION {Range(c.server_locations) : c \in data.chunks}
        chunks_of(server_id) ==
            {c.chunk_id : c \in {x \in data.chunks :
                                    server_id \in Range(x.server_locations)}}
    IN  [files_ |->
            [filename \in {f.filename : f \in data.files} |->
                [file_id |-> file_json(filename).file_id,
                 filename |-> filename,
                 size |-> file_json(filename).size,
                 chunk_ids |-> file_json(filename).chunk_ids,
                 is_erasure_coded |-> file_json(filename).is_erasure_coded]],
         chunks_ |->
            [chunk_id \in {c.chunk_id : c \in data.chunks} |->
                [server_locations |-> chunk_json(chunk_id).server_locations,
                 is_erasure_coded |-> chunk_json(chunk_id).is_erasure_coded]],
         chunk_to_servers_ |->
            [chunk_id \in {c.chunk_id : c \in located} |->
                Range(chunk_json(chunk_id).server_locations)],
         server_to_chunks_ |-> [server_id \in holders |-> chunks_of(server_id)],
         servers_ |->
            [server_id \in {v.server_id : v \in data.servers} |->
                [total_space |-> server_json(server_id).total_space,
                 free_space |-> server_json(server_id).free_space,
                 cpu_usage |-> server_json(server_id).cpu_usage,
                 memory_usage |-> server_json(server_id).memory_usage,
                 is_healthy |-> server_json(server_id).is_healthy,
                 last_heartbeat |-> server_json(server_id).last_heartbeat,
                 stored_chunks |-> chunks_of(server_id)]],
         round_robin_index_ |-> 0]

\* the master stops, which saves the metadata file, and a new master process
\* starts, which loads it
MasterRestart ==
    /\ metadata_mutex_ = "free"
    /\ \E loaded \in {Bind(Tables, LAMBDA st : deserializeMetadata(serializeMetadata(st)))} :
          /\ restart' = [pc |-> "loaded",
                         saved |-> Tables,
                         loaded |-> loaded]
          /\ SetTables(loaded)
    /\ monitor_pc' = "sleeping"
    /\ UNCHANGED <<file_ids_issued, allocatorVars, sysVars, metadata_mutex_,
                   create_calls, storeVars, write_call, read_call, maintVars,
                   response_call, endpoint_calls, keys_, cache_manager, cache_call,
                   finalVars>>

PersistNext ==
    \/ \E s \in MasterServers : MasterStartChunkServer(s)
    \/ \E s \in MasterServers : MasterHeartbeat(s)
    \/ MasterTick
    \/ MasterCreateFile
    \/ MasterAllocateChunks
    \/ MasterRestart

PersistSpec == Init /\ [][PersistNext]_vars

\* a relation kept as a map from keys to sets, as the set of its pairs
Pairs(map) == {<<key, value>> : key \in DOMAIN map, value \in UNION {map[k] : k \in DOMAIN map}}
                 \cap UNION {{<<key, value>> : value \in map[key]} : key \in DOMAIN map}

\* C29: for every reachable state of the master's metadata,
\* deserializeMetadata(serializeMetadata(state)) has the same files, the same
\* chunks with the same server locations, the same servers with the same
\* stored_chunks, and the same chunk-to-server and server-to-chunk relations.
C29_MetadataRoundTrip ==
    restart.pc = "loaded" =>
        /\ restart.loaded.files_ = restart.saved.files_
        /\ restart.loaded.chunks_ = restart.saved.chunks_
        /\ restart.loaded.servers_ = restart.saved.servers_
        /\ Pairs(restart.loaded.chunk_to_servers_) = Pairs(restart.saved.chunk_to_servers_)
        /\ Pairs(restart.loaded.server_to_chunks_) = Pairs(restart.saved.server_to_chunks_)

(***************************************************************************)
(* Repair at the master: a file is created and allocated, replicated or    *)
(* erasure-coded; servers stop and the heartbeat sweeper handles their     *)
(* failure; running servers report a chunk of theirs as corrupted.         *)
(***************************************************************************)
RepairServers == 1..MaxRepairServers

\* returns the tables after the call and the servers reallocateChunk
\* returned, which is what the handler passes to scheduleReplication
ReportChunkCorruption(st, chunk_id, server_id, seed) ==
    Bind(removeChunkFromServer(st, chunk_id, server_id),
         LAMBDA removed :
            IF chunk_id \in DOMAIN removed.chunks_
               /\ Len(removed.chunks_[chunk_id].server_locations)
                    < DEFAULT_REPLICATION_FACTOR
            THEN Bind(reallocateChunk(removed, chunk_id, <<server_id>>, seed),
                      LAMBDA got :
                         [st |-> scheduleReplication(got.st, chunk_id, got.servers),
                          new_servers |-> got.servers])
            ELSE [st |-> removed, new_servers |-> <<>>])

\* the client's CreateFile, for a replicated or an erasure-coded upload
RepairCreateFile ==
    /\ "a" \notin DOMAIN files_
    /\ file_ids_issued = 0
    /\ \E enable_erasure_coding \in BOOLEAN :
         \E done \in {Bind(Tables,
                           LAMBDA st : CreateFile(st, "a", 1, enable_erasure_coding,
                                           generateFileId(file_ids_issued + 1)))} :
             SetTables(done.st)
    /\ file_ids_issued' = file_ids_issued + 1
    /\ monitor_pc' = "sleeping"
    /\ UNCHANGED <<masterIdleVars, now, server_state, replication_queue_,
                   metadata_mutex_>>

\* the client's AllocateChunks, with the flag of its CreateFile
RepairAllocateChunks ==
    /\ "a" \in DOMAIN files_
    /\ files_["a"].chunk_ids = <<>>
    /\ now = 0
    /\ \E seed \in Seeds :
         \E done \in {Bind(Tables,
                           LAMBDA st : AllocateChunks(st, files_["a"].file_id,
                                           files_["a"].is_erasure_coded, seed))} :
             /\ done.response.success
             /\ SetTables(done.st)
    /\ monitor_pc' = "sleeping"
    /\ UNCHANGED <<file_ids_issued, masterIdleVars, now, server_state,
                   replication_queue_, metadata_mutex_>>

\* a running server reports a chunk of a file that the master has recorded
\* on it
RepairReportChunkCorruption ==
    /\ repair.reports < MaxReports
    /\ \E chunk_id \in DOMAIN chunks_ \cap
                        UNION {Range(files_[f].chunk_ids) : f \in DOMAIN files_} :
         \E server_id \in Range(chunks_[chunk_id].server_locations) :
           /\ server_state[server_id] = "running"
           /\ \E seed \in Seeds :
                \E done \in {Bind(Tables,
                                  LAMBDA st : ReportChunkCorruption(st, chunk_id,
                                                  server_id, seed))} :
                   /\ SetTables(done.st)
                   /\ repair' = [pc |-> "done",
                                 reports |-> repair.reports + 1,
                                 chunk_id |-> chunk_id,
                                 server_id |-> server_id,
                                 locations |-> done.st.chunks_[chunk_id].server_locations,
                                 new_servers |-> done.new_servers]
    /\ monitor_pc' = "sleeping"
    /\ UNCHANGED <<file_ids_issued, allocatorVars, sysVars, metadata_mutex_,
                   create_calls, storeVars, write_call, read_call, maintVars,
                   response_call, endpoint_calls, keys_, cache_manager, cache_call,
                   restart, chunk_download, shutdown>>

\* the heartbeat sweeper's handleServerFailure for a server that stopped and
\* whose last heartbeat has become older than the timeout
RepairHandleServerFailure(s) ==
    /\ server_state[s] = "stopped"
    /\ servers_[s].is_healthy
    /\ \E seed \in Seeds :
         \E handled \in {Bind(Tables, LAMBDA st : handleServerFailure(st, s, seed))} :
             SetTables(handled)
    /\ monitor_pc' = "swept"
    /\ UNCHANGED <<file_ids_issued, masterIdleVars, now, server_state,
                   replication_queue_, metadata_mutex_>>

RepairNext ==
    \/ \E s \in RepairServers : MasterStartChunkServer(s)
    \/ \E s \in RepairServers : MasterStopChunkServer(s)
    \/ \E s \in RepairServers : RepairHandleServerFailure(s)
    \/ RepairCreateFile
    \/ RepairAllocateChunks
    \/ RepairReportChunkCorruption

RepairSpec == Init /\ [][RepairNext]_vars

\* C31: in every reachable master state, after allocation, after the
\* handling of a server failure and after a corruption report, each block of
\* an erasure-coded file has exactly one server location.
C31_BlockOnOneServer ==
    \A filename \in DOMAIN files_ :
        files_[filename].is_erasure_coded =>
            \A chunk_id \in Range(files_[filename].chunk_ids) :
                chunk_id \in DOMAIN chunks_ =>
                    Len(chunks_[chunk_id].server_locations) = 1

\* C32: once ReportChunkCorruption(c, s) has been handled, s is not among
\* the recorded locations of c, and s is not among the servers the repair
\* chose as replacement locations and replication targets for c.
C32_ReporterExcluded ==
    repair.pc = "done" =>
        /\ repair.server_id \notin Range(repair.locations)
        /\ repair.server_id \notin Range(repair.new_servers)

\* C39: the handling of a server failure and the repair after a corruption
\* report create no chunk record: every chunk of the master's chunk table is
\* listed in the chunk_ids of some file.
C39_NoChunkCreated ==
    \A chunk_id \in DOMAIN chunks_ :
        \E filename \in DOMAIN files_ :
            chunk_id \in Range(files_[filename].chunk_ids)

\* C33: every turn of the master's persistence thread (save the metadata,
\* cleanupOrphanedChunks, cleanupDeadServers) terminates and releases the
\* metadata lock, also when dead servers or chunks of no file exist: the
\* lock is never left in a state in which it can never be taken again.
C33_PersistReleasesLock == metadata_mutex_ = "free"

\* the positions of a server list whose server is the first of its zone
FirstOfZone(servers) ==
    {i \in DOMAIN servers :
        \A j \in 1..(i - 1) : getServerZone(servers[j]) # getServerZone(servers[i])}

\* the servers of every returned chunk begin with servers of pairwise
\* different zones, and no server after them brings a new zone
ZoneFirstOrder ==
    AllocReturned =>
        \A c \in DOMAIN AllocChunks :
            \A i \in DOMAIN AllocChunks[c].server_addresses :
                \A j \in DOMAIN AllocChunks[c].server_addresses :
                    (i < j /\ j \in FirstOfZone(AllocChunks[c].server_addresses))
                        => i \in FirstOfZone(AllocChunks[c].server_addresses)

\* C34: under the ZONE_AWARE strategy allocateChunks terminates and, for
\* each chunk, first picks at most one server of each zone and only then
\* fills the remaining slots with least-loaded servers.
C34_ZoneAwareTerminates ==
    strategy_ = "ZONE_AWARE" =>
        /\ alloc_call.phase # "hung"
        /\ ZoneFirstOrder

(***************************************************************************)
(* The client's downloadChunk on its own, after an upload: the chunk's     *)
(* entry of the master's GetFileInfo response and the servers' answers.    *)
(***************************************************************************)
\* ChunkInfo::checksum as GetFileInfo sends it: ChunkMetadata::checksum,
\* which allocateServersForChunk leaves empty and nothing assigns
advertisedChecksum(st, chunk_id) == <<>>

\* downloadChunk of a chunk of the uploaded file, by the uploading client
\* or by a client with an empty cache; the servers' answers are recorded
ChunkDownload ==
    /\ upload.pc = "completed"
    /\ \E same_client \in BOOLEAN :
         \E chunk_info \in Range(GetFileInfo(Tables, "a").file_info.chunks) :
            \E chunk_data \in {downloadChunk(IF same_client THEN cache_ ELSE <<>>,
                                             chunk_info.chunk_id,
                                             chunk_info.server_addresses)} :
               /\ chunk_download' =
                     [pc |-> "returned",
                      chunk_id |-> chunk_info.chunk_id,
                      checksum |-> advertisedChecksum(Tables, chunk_info.chunk_id),
                      cached |-> same_client /\ chunk_info.chunk_id \in DOMAIN cache_,
                      responses |-> [i \in DOMAIN chunk_info.server_addresses |->
                                        readFrom(chunk_info.server_addresses[i],
                                                 chunk_info.chunk_id)],
                      chunk_data |-> chunk_data]
               /\ cache_' = IF same_client /\ chunk_data # <<>>
                            THEN Put(cache_, chunk_info.chunk_id, chunk_data)
                            ELSE cache_
    /\ UNCHANGED <<masterVars, allocatorVars, unitVars, now, server_state, storage_,
                   replication_queue_, upload, download, create_calls, storeVars,
                   write_call, read_call, maintVars, response_call, endpoint_calls,
                   keys_, cache_manager, cache_call, restart, repair, shutdown>>

ChunkDownloadNext ==
    \/ \E s \in UploadServers : StartChunkServer(s)
    \/ \E s \in UploadServers : UploadStopChunkServer(s)
    \/ \E file_size \in LongUploadSizes : UploadFileOfSize(file_size)
    \/ UploadAllocateChunks
    \/ UploadChunk
    \/ UploadComplete
    \/ ChunkDownload

ChunkDownloadSpec == Init /\ [][ChunkDownloadNext]_vars

\* the servers, by their place in server_addresses, whose body has the
\* SHA-256 the master advertised
MatchingResponses ==
    {i \in DOMAIN chunk_download.responses :
        /\ chunk_download.responses[i].success
        /\ calculateSHA256(chunk_download.responses[i].data) = chunk_download.checksum}

\* C35: downloadChunk tries the chunk's server_addresses in list order and
\* returns the body of the first server whose body has a SHA-256 equal to
\* the checksum the master advertised for the chunk in GetFileInfo; if no
\* server returns such a body it returns nothing and the download fails.
C35_AdvertisedChecksum ==
    (chunk_download.pc = "returned" /\ ~chunk_download.cached) =>
        IF MatchingResponses = {}
        THEN chunk_download.chunk_data = <<>>
        ELSE chunk_download.chunk_data =
                chunk_download.responses[
                    CHOOSE i \in MatchingResponses :
                        \A j \in MatchingResponses : i <= j].data

(***************************************************************************)
(* The client uploads an empty local file, a file of one byte or one of    *)
(* two chunks, and downloads it.                                           *)
(***************************************************************************)
ZeroUploadSizes == {0, 1, CHUNK_SIZE + 1}

ZeroUploadNext ==
    \/ \E s \in UploadServers : StartChunkServer(s)
    \/ \E s \in UploadServers : UploadStopChunkServer(s)
    \/ \E file_size \in ZeroUploadSizes : UploadFileOfSize(file_size)
    \/ UploadAllocateChunks
    \/ UploadChunk
    \/ UploadComplete
    \/ DownloadFile

ZeroUploadSpec == Init /\ [][ZeroUploadNext]_vars

\* C37: the upload of a zero-byte file succeeds and leaves a completed file
\* of size 0, which a download turns into a zero-byte local file: uploadFile
\* does not give up on the file because it read no bytes from it.
C37_ZeroByteUpload ==
    upload # [pc |-> "failed", message |-> "Failed to read file"]

(***************************************************************************)
(* ChunkStorage::deleteChunk on a directory that writes, some of them      *)
(* failing, have left behind.                                              *)
(***************************************************************************)
\* a caller's deleteChunk; the storage before and after it is recorded with
\* what it returned
StorageDeleteChunkCall ==
    /\ storage_mutex_ = "free"
    /\ \E chunk_id \in StoreChunkIds :
         \E done \in {deleteChunkOnDisk(Store, chunk_id)} :
            /\ SetStore(done.st)
            /\ delete_call' = [pc |-> "returned", chunk_id |-> chunk_id,
                               before |-> Store, after |-> done.st,
                               success |-> done.success]
    /\ UNCHANGED <<masterVars, allocatorVars, sysVars, unitVars, create_calls,
                   laterVars, storage_mutex_, gc_pc, write_call, read_call>>

DeleteChunkNext ==
    \/ StorageReceiveWrite
    \/ StorageWriteChunk
    \/ StorageDeleteChunkCall

DeleteChunkSpec == Init /\ [][DeleteChunkNext]_vars

\* nothing of the chunk is left in the directory st or in its two indices
NothingLeft(st, chunk_id) ==
    /\ chunk_id \notin DOMAIN st.data_files_
    /\ chunk_id \notin DOMAIN st.sidecars_
    /\ chunk_id \notin DOMAIN st.chunk_checksums_
    /\ chunk_id \notin st.stored_chunks_

\* C38: deleteChunk is all-or-nothing: either the chunk's data file, its
\* sidecar and both index entries are all removed and it returns true, or
\* all of them are left as they were and it returns false; and a stored
\* chunk whose sidecar file is missing is deleted all the same.
C38_DeleteAllOrNothing ==
    delete_call.pc = "returned" =>
        /\ IF delete_call.success
           THEN NothingLeft(delete_call.after, delete_call.chunk_id)
           ELSE delete_call.after = delete_call.before
        /\ (/\ delete_call.chunk_id \in delete_call.before.stored_chunks_
            /\ delete_call.chunk_id \notin DOMAIN delete_call.before.sidecars_)
              => delete_call.success

\* a rebalancing task that moves chunk_id from source to target waits in the
\* target's queue
RebalancingQueued(chunk_id, source, target) ==
    \E i \in DOMAIN replication_queue_[target] :
        /\ replication_queue_[target][i].chunk_id = chunk_id
        /\ replication_queue_[target][i].source_server = source
        /\ replication_queue_[target][i].target_server = target
        /\ ~replication_queue_[target][i].is_urgent

\* the chunk is stored on the target and no longer on the source, and the
\* master's locations say so
ChunkMoved(chunk_id, source, target) ==
    /\ chunk_id \in DOMAIN storage_[target]
    /\ chunk_id \notin DOMAIN storage_[source]
    /\ chunk_id \in DOMAIN chunks_
    /\ target \in Range(chunks_[chunk_id].server_locations)
    /\ source \notin Range(chunks_[chunk_id].server_locations)

\* C36: when rebalancing is triggered and a task to move an overloaded
\* server's chunk to an underloaded server has reached the target, the chunk
\* is eventually moved: stored on the target, no longer on the source, and
\* recorded so in the master's locations.
C36_ChunkEventuallyMoved ==
    \A source \in Servers : \A target \in Servers \ {source} :
        \A chunk_id \in {"file_1_chunk_0"} :
            RebalancingQueued(chunk_id, source, target)
                ~> ChunkMoved(chunk_id, source, target)

\* ---------------------------------------------------------------------------
\* ChunkServer::stop against the replication worker and the heartbeat thread

otherFinalVars == <<repair, chunk_download>>

stopIdleVars ==
    <<masterVars, allocatorVars, ecVars, sysVars, unitVars, create_calls, storeVars,
      write_call, read_call, maintVars, response_call, endpoint_calls, keys_,
      cache_manager, cache_call, restart, otherFinalVars>>

\* the wait predicate of processReplicationTasks
waitPredicate(sd) == sd.queued > 0 \/ ~sd.running_

\* replication_cv_.notify_one / notify_all: a thread blocked in wait is made
\* runnable, and a notification that finds nobody blocked is lost
notify(sd) ==
    IF sd.worker_pc = "waiting" THEN [sd EXCEPT !.worker_pc = "woken"] ELSE sd

\* stop: running_ is true, so it is stored false and the gRPC server shut down
StopStoreRunning ==
    /\ shutdown.stop_pc = "idle"
    /\ shutdown.running_
    /\ shutdown' = [shutdown EXCEPT !.running_ = FALSE, !.stop_pc = "stored"]
    /\ UNCHANGED stopIdleVars

\* stop: replication_cv_.notify_all(), replication_mutex_ not held
StopNotifyAll ==
    /\ shutdown.stop_pc = "stored"
    /\ shutdown' = [notify(shutdown) EXCEPT !.stop_pc = "notified"]
    /\ UNCHANGED stopIdleVars

\* stop: heartbeat_thread_.join()
StopJoinHeartbeat ==
    /\ shutdown.stop_pc = "notified"
    /\ shutdown.heartbeat_pc = "exited"
    /\ shutdown' = [shutdown EXCEPT !.stop_pc = "joined_heartbeat"]
    /\ UNCHANGED stopIdleVars

\* stop: replication_thread_.join(), after which stop goes on to return
StopJoinReplication ==
    /\ shutdown.stop_pc = "joined_heartbeat"
    /\ shutdown.worker_pc = "exited"
    /\ shutdown' = [shutdown EXCEPT !.stop_pc = "returned"]
    /\ UNCHANGED stopIdleVars

\* processReplicationTasks: the while test, then the unique_lock
WorkerLoop ==
    /\ shutdown.worker_pc = "loop"
    /\ IF shutdown.running_
       THEN /\ shutdown.replication_mutex_ = "free"
            /\ shutdown' = [shutdown EXCEPT !.worker_pc = "locked",
                                            !.replication_mutex_ = "worker"]
       ELSE shutdown' = [shutdown EXCEPT !.worker_pc = "exited"]
    /\ UNCHANGED stopIdleVars

\* wait(lock, pred): the predicate is evaluated with the mutex held
WorkerCheckPredicate ==
    /\ shutdown.worker_pc = "locked"
    /\ shutdown' = [shutdown EXCEPT
                       !.worker_pc = IF waitPredicate(shutdown) THEN "ready"
                                                                ELSE "checked"]
    /\ UNCHANGED stopIdleVars

\* wait(lock, pred): the predicate was false, so the thread releases the mutex
\* and blocks
WorkerBlock ==
    /\ shutdown.worker_pc = "checked"
    /\ shutdown' = [shutdown EXCEPT !.worker_pc = "waiting",
                                    !.replication_mutex_ = "free"]
    /\ UNCHANGED stopIdleVars

\* a wait may return without a notification
WorkerSpuriousWakeup ==
    /\ shutdown.worker_pc = "waiting"
    /\ shutdown' = [shutdown EXCEPT !.worker_pc = "woken"]
    /\ UNCHANGED stopIdleVars

\* wait(lock, pred): a woken thread takes the mutex again and evaluates the
\* predicate again
WorkerReacquire ==
    /\ shutdown.worker_pc = "woken"
    /\ shutdown.replication_mutex_ = "free"
    /\ shutdown' = [shutdown EXCEPT !.worker_pc = "locked",
                                    !.replication_mutex_ = "worker"]
    /\ UNCHANGED stopIdleVars

\* after the wait: break when running_ is false, else drain the queue
WorkerAfterWait ==
    /\ shutdown.worker_pc = "ready"
    /\ shutdown' = IF ~shutdown.running_
                   THEN [shutdown EXCEPT !.worker_pc = "exited",
                                         !.replication_mutex_ = "free"]
                   ELSE [shutdown EXCEPT !.worker_pc = "draining"]
    /\ UNCHANGED stopIdleVars

\* the inner loop: pop a task and unlock to handle it, or leave the loop and
\* drop the lock
WorkerDrain ==
    /\ shutdown.worker_pc = "draining"
    /\ shutdown' = IF shutdown.queued > 0
                   THEN [shutdown EXCEPT !.worker_pc = "handling",
                                         !.queued = @ - 1,
                                         !.replication_mutex_ = "free"]
                   ELSE [shutdown EXCEPT !.worker_pc = "loop",
                                         !.replication_mutex_ = "free"]
    /\ UNCHANGED stopIdleVars

\* handleReplicationTask returned: lock.lock()
WorkerHandled ==
    /\ shutdown.worker_pc = "handling"
    /\ shutdown.replication_mutex_ = "free"
    /\ shutdown' = [shutdown EXCEPT !.worker_pc = "draining",
                                    !.replication_mutex_ = "worker"]
    /\ UNCHANGED stopIdleVars

\* sendHeartbeats: the while test, the sleep, the second test, and a response
\* that carries some replication tasks
HeartbeatBeat ==
    /\ shutdown.heartbeat_pc = "sleeping"
    /\ IF shutdown.running_
       THEN \E tasks \in 0..MaxBeatTasks :
                shutdown' = [shutdown EXCEPT !.heartbeat_pc = "responded",
                                             !.pending = tasks]
       ELSE shutdown' = [shutdown EXCEPT !.heartbeat_pc = "exited"]
    /\ UNCHANGED stopIdleVars

\* sendHeartbeats: one task is pushed under replication_mutex_ and the worker
\* notified
HeartbeatPushTask ==
    /\ shutdown.heartbeat_pc = "responded"
    /\ shutdown.pending > 0
    /\ shutdown.queued < MaxQueuedTasks
    /\ shutdown.replication_mutex_ = "free"
    /\ shutdown' = [notify(shutdown) EXCEPT !.pending = @ - 1, !.queued = @ + 1]
    /\ UNCHANGED stopIdleVars

\* sendHeartbeats: the response is dealt with, back to the while test
HeartbeatDone ==
    /\ shutdown.heartbeat_pc = "responded"
    /\ shutdown.pending = 0
    /\ shutdown' = [shutdown EXCEPT !.heartbeat_pc = "sleeping"]
    /\ UNCHANGED stopIdleVars

StopNext ==
    \/ StopStoreRunning
    \/ StopNotifyAll
    \/ StopJoinHeartbeat
    \/ StopJoinReplication
    \/ WorkerLoop
    \/ WorkerCheckPredicate
    \/ WorkerBlock
    \/ WorkerSpuriousWakeup
    \/ WorkerReacquire
    \/ WorkerAfterWait
    \/ WorkerDrain
    \/ WorkerHandled
    \/ HeartbeatBeat
    \/ HeartbeatPushTask
    \/ HeartbeatDone

StopSpec == Init /\ [][StopNext]_vars

\* stop has notified, and the worker is blocked in its wait with nobody left
\* to notify it
WorkerStranded ==
    /\ shutdown.stop_pc \in {"notified", "joined_heartbeat"}
    /\ shutdown.worker_pc = "waiting"
    /\ shutdown.heartbeat_pc = "exited"

\* C40: ChunkServer::stop always terminates: once running_ is false the
\* replication worker wakes up and exits, so stop is never left joining a
\* worker that is blocked in its wait after the last notification was sent.
C40_StopTerminates == ~WorkerStranded

====
